---------------------------- MODULE Spec2Model ----------------------------
(***************************************************************************)
(* Model of the surface interpolation utilities of MACPLAS                 *)
(* (include/utilities.h): Triangle, closest_segment_point,                 *)
(* SurfaceInterpolator3D and SurfaceInterpolator2D.                        *)
(*                                                                         *)
(* Numbers.  A double is modelled by an exact rational <<n, d>> in lowest  *)
(* terms with d > 0; <<0, 0>> is NaN (the only non-finite value these      *)
(* functions produce: every division by zero in them is 0/0).  Lengths     *)
(* that are square roots in the source are carried by their squares        *)
(* (longest side, twice the area), and comparisons of lengths become       *)
(* comparisons of squares.                                                 *)
(***************************************************************************)
EXTENDS Integers, Sequences, FiniteSets, TLC

\* ------------------------------------------------------------- numbers

Abs(x) == IF x < 0 THEN -x ELSE x

RECURSIVE Gcd(_, _)
Gcd(a, b) == IF b = 0 THEN a ELSE Gcd(b, a % b)

NaN == <<0, 0>>

IsNaN(x) == x[2] = 0

\* the rational n/d in lowest terms
Q(n, d) ==
  IF d = 0 THEN NaN
  ELSE LET g == Gcd(Abs(n), Abs(d))
           s == IF d < 0 THEN -1 ELSE 1
       IN  <<(s * n) \div g, (s * d) \div g>>

I(n) == <<n, 1>>

Zero == <<0, 1>>

One == <<1, 1>>

QAdd(a, b) ==
  IF IsNaN(a) \/ IsNaN(b) THEN NaN
  ELSE Q(a[1] * b[2] + b[1] * a[2], a[2] * b[2])

QNeg(a) == <<-a[1], a[2]>>

QSub(a, b) == QAdd(a, QNeg(b))

QMul(a, b) ==
  IF IsNaN(a) \/ IsNaN(b) THEN NaN ELSE Q(a[1] * b[1], a[2] * b[2])

\* a / b; b = 0 happens in the source only with a = 0, which is NaN
QDiv(a, b) ==
  IF IsNaN(a) \/ IsNaN(b) \/ b[1] = 0 THEN NaN
  ELSE Q(a[1] * b[2], a[2] * b[1])

\* a < b as doubles compare: false when either is NaN
QLess(a, b) == ~IsNaN(a) /\ ~IsNaN(b) /\ a[1] * b[2] < b[1] * a[2]

QLeq(a, b) == ~IsNaN(a) /\ ~IsNaN(b) /\ a[1] * b[2] <= b[1] * a[2]

\* std::min(a, b) is (b < a) ? b : a and std::max(a, b) is (a < b) ? b : a
StdMin(a, b) == IF QLess(b, a) THEN b ELSE a

StdMax(a, b) == IF QLess(a, b) THEN b ELSE a

sqr(x) == QMul(x, x)

\* ------------------------------------------------------------- points

VAdd(a, b) == [i \in DOMAIN a |-> QAdd(a[i], b[i])]

VSub(a, b) == [i \in DOMAIN a |-> QSub(a[i], b[i])]

VScale(t, a) == [i \in DOMAIN a |-> QMul(t, a[i])]

RECURSIVE DotFrom(_, _, _)
DotFrom(a, b, i) ==
  IF i > Len(a) THEN Zero ELSE QAdd(QMul(a[i], b[i]), DotFrom(a, b, i + 1))

Dot(a, b) == DotFrom(a, b, 1)

norm_square(a) == Dot(a, a)

cross_product_3d(a, b) ==
  << QSub(QMul(a[2], b[3]), QMul(a[3], b[2])),
     QSub(QMul(a[3], b[1]), QMul(a[1], b[3])),
     QSub(QMul(a[1], b[2]), QMul(a[2], b[1])) >>

P3(x, y, z) == <<x, y, z>>

P2(x, y) == <<x, y>>

Origin3 == P3(Zero, Zero, Zero)

Origin2 == P2(Zero, Zero)

\* ------------------------------------------------------------- segment

\* the parameter t of the projection of p on the line through the segment
segment_parameter(p, segment_p0, segment_p1) ==
  LET d == VSub(segment_p1, segment_p0)
  IN  QDiv(Dot(d, VSub(p, segment_p0)), norm_square(d))

closest_segment_point(p, segment_p0, segment_p1) ==
  LET d == VSub(segment_p1, segment_p0)
      t == StdMax(Zero, StdMin(One, segment_parameter(p, segment_p0, segment_p1)))
  IN  VAdd(segment_p0, VScale(t, d))

\* barycentric_coordinates(p, segment_p0, segment_p1) of a segment
segment_barycentric(p, segment_p0, segment_p1) ==
  LET t == segment_parameter(p, segment_p0, segment_p1)
  IN  <<QSub(One, t), t>>

\* ------------------------------------------------------------- Triangle

(***************************************************************************)
(* A Triangle is [m_points, m_cross, m_cross2, m_center, m_longest2]:      *)
(* m_cross is the cross product of the two edge vectors and m_cross2 its   *)
(* squared norm, so that m_area = sqrt(m_cross2)/2 and m_normal =          *)
(* m_cross/sqrt(m_cross2) (m_cross itself, the zero vector, when the area  *)
(* is 0); m_longest2 is the square of m_longest_side.                      *)
(***************************************************************************)
calculate_normal_and_area(pts) ==
  LET n == cross_product_3d(VSub(pts[2], pts[1]), VSub(pts[3], pts[1]))
  IN  [m_cross |-> n, m_cross2 |-> norm_square(n)]

reinit(p0, p1, p2) ==
  LET na == calculate_normal_and_area(<<p0, p1, p2>>)
  IN  [ m_points   |-> <<p0, p1, p2>>,
        m_cross    |-> na.m_cross,
        m_cross2   |-> na.m_cross2,
        m_center   |-> VScale(Q(1, 3), VAdd(VAdd(p0, p1), p2)),
        m_longest2 |-> StdMax(StdMax(norm_square(VSub(p1, p0)),
                                     norm_square(VSub(p2, p0))),
                              norm_square(VSub(p1, p2))) ]

\* signed_area(p0, p1, p2) / m_area: the factor sqrt(m_cross2) of the normal
\* and the one of the area make m_cross2
signed_area_ratio(tr, p0, p1, p2) ==
  QDiv(Dot(tr.m_cross, cross_product_3d(VSub(p1, p0), VSub(p2, p0))),
       tr.m_cross2)

project_to_triangle_plane(tr, p) ==
  IF tr.m_cross2 = Zero THEN p
  ELSE VSub(p, VScale(QDiv(Dot(tr.m_cross, VSub(p, tr.m_points[1])),
                           tr.m_cross2),
                      tr.m_cross))

barycentric_coordinates(tr, p) ==
  << signed_area_ratio(tr, p, tr.m_points[2], tr.m_points[3]),
     signed_area_ratio(tr, tr.m_points[1], p, tr.m_points[3]),
     signed_area_ratio(tr, tr.m_points[1], tr.m_points[2], p) >>

\* the loop over the three edges: acc is [d2_min, p_closest]
RECURSIVE closest_edge_point(_, _, _, _)
closest_edge_point(tr, p, i, acc) ==
  IF i >= 3 THEN acc
  ELSE LET p_edge == closest_segment_point(p, tr.m_points[i + 1],
                                           tr.m_points[((i + 1) % 3) + 1])
           d2     == norm_square(VSub(p, p_edge))
       IN  closest_edge_point(tr, p, i + 1,
             IF QLess(d2, acc.d2_min) \/ QLess(acc.d2_min, Zero)
             THEN [d2_min |-> d2, p_closest |-> p_edge]
             ELSE acc)

\* a test that takes every projection for a point of the triangle: not what
\* the code does
is_inside_always(t3) == TRUE

is_inside(t3) == \A k \in 1..3 : QLeq(Zero, t3[k]) /\ QLeq(t3[k], One)

closest_triangle_point(tr, p) ==
  LET p_proj == project_to_triangle_plane(tr, p)
      t3     == barycentric_coordinates(tr, p_proj)
  IN  IF is_inside(t3) THEN p_proj
      ELSE closest_edge_point(tr, p, 0,
             [d2_min |-> I(-1), p_closest |-> Origin3]).p_closest

\* ------------------------------------------------------------- values

(***************************************************************************)
(* Doubles that are not rational.  <<n, d, 1>> is sign(n) * sqrt(|n|/d),   *)
(* the form of a length or of a component of a unit normal;                *)
(* <<n, d, 2>> and <<n, d, 3>> are the doubles nearest to the decimal      *)
(* numeral of 15 significant digits of <<n, d>> and of <<n, d, 1>>.        *)
(* No arithmetic of the model is applied to them: they are written, read   *)
(* and compared.                                                           *)
(***************************************************************************)
IsExact(v) == Len(v) = 2

RECURSIVE IsqrtFrom(_, _)
IsqrtFrom(n, k) == IF k * k >= n THEN k ELSE IsqrtFrom(n, k + 1)

IsSquare(n) == LET k == IsqrtFrom(n, 0) IN k * k = n

\* sign * sqrt(q) for a rational q >= 0 and sign in {-1, 1}
SignedRoot(sign, q) ==
  IF IsSquare(q[1]) /\ IsSquare(q[2])
  THEN Q(sign * IsqrtFrom(q[1], 0), IsqrtFrom(q[2], 0))
  ELSE <<sign * q[1], q[2], 1>>

Root(q) == SignedRoot(1, q)

\* m_area, m_longest_side and m_normal of a cached triangle
area(tr) == Root(QDiv(tr.m_cross2, I(4)))

longest_side(tr) == Root(tr.m_longest2)

center(tr) == tr.m_center

normal(tr) ==
  IF tr.m_cross2 = Zero THEN tr.m_cross
  ELSE [k \in 1..3 |->
          SignedRoot(IF tr.m_cross[k][1] < 0 THEN -1 ELSE 1,
                     QDiv(sqr(tr.m_cross[k]), tr.m_cross2))]

\* ------------------------------------------------------------- binary64

(***************************************************************************)
(* Doubles whose rounding matters.  <<m, e, 2, 53>> is the positive IEEE   *)
(* binary64 number m * 2^e, m the 53 bits of its significand, the most     *)
(* significant first; <<<<>>, 0, 2, 53>> is 0.  Sums and quotients of      *)
(* them are rounded to nearest, ties to even, as the processor does; the   *)
(* exponents of the model stay far from overflow and underflow.            *)
(***************************************************************************)
Precision == 53

IsBinary64(v) == Len(v) = 4

Binary64(m, e) == <<m, e, 2, Precision>>

Binary64Zero == Binary64(<<>>, 0)

Zeros(k) == [i \in 1..k |-> 0]

\* the bits without leading zeros
Strip(b) ==
  IF \A i \in 1..Len(b) : b[i] = 0 THEN <<>>
  ELSE SubSeq(b, CHOOSE i \in 1..Len(b) :
                   b[i] = 1 /\ \A j \in 1..(i - 1) : b[j] = 0, Len(b))

\* the carry into bit i of a + b for two naturals of equal length: some
\* lower bit generates it and every bit between passes it on
Carry(a, b, i) ==
  IF \E j \in (i + 1)..Len(a) :
       /\ a[j] + b[j] = 2
       /\ \A k \in (i + 1)..(j - 1) : a[k] + b[k] = 1
  THEN 1 ELSE 0

\* a + b for naturals; the shorter is padded with leading zeros
BitsAddEqual(a, b) ==
  Strip(<<Carry(a, b, 0)>>
        \o [i \in 1..Len(a) |-> (a[i] + b[i] + Carry(a, b, i)) % 2])

BitsAddPadded(a, b) == BitsAddEqual(a, Zeros(Len(a) - Len(b)) \o b)

BitsAdd(a, b) ==
  IF Len(a) < Len(b) THEN BitsAddPadded(b, a) ELSE BitsAddPadded(a, b)

\* the natural of at most 13 bits, and the 13 bits of a natural below 2^13
RECURSIVE ChunkValue(_)
ChunkValue(b) ==
  IF b = <<>> THEN 0 ELSE 2 * ChunkValue(SubSeq(b, 1, Len(b) - 1)) + b[Len(b)]

ChunkBits(x) ==
  [i \in 1..13 |->
     (x \div <<4096, 2048, 1024, 512, 256, 128, 64, 32, 16, 8, 4, 2, 1>>[i]) % 2]

\* long division of the natural a, of a multiple of 13 bits, by the integer
\* 0 < n < 64, 13 bits at a time: the quotient and the remainder
RECURSIVE BitsDivFrom(_, _, _, _, _)
BitsDivFrom(a, n, i, r, acc) ==
  IF i > Len(a) THEN [q |-> Strip(acc), r |-> r]
  ELSE BitsDivFrom(a, n, i + 13,
         (8192 * r + ChunkValue(SubSeq(a, i, i + 12))) % n,
         acc \o ChunkBits((8192 * r + ChunkValue(SubSeq(a, i, i + 12)))
                            \div n))

BitsDiv(a, n) ==
  BitsDivFrom(Zeros((13 - (Len(a) % 13)) % 13) \o a, n, 1, 0, <<>>)

\* the bits of the natural n
RECURSIVE BitsOf(_)
BitsOf(n) == IF n = 0 THEN <<>> ELSE Append(BitsOf(n \div 2), n % 2)

\* the kept bits after rounding up: a carry out of the top bit shifts them
RoundedUp(kept, e) ==
  IF Len(BitsAdd(kept, <<1>>)) > Precision
  THEN Binary64(SubSeq(BitsAdd(kept, <<1>>), 1, Precision), e + 1)
  ELSE Binary64(BitsAdd(kept, <<1>>), e)

\* the binary64 nearest to bits * 2^e (plus less than one unit of the last
\* bit when sticky), ties to even; bits has no leading zero
Nearest(bits, e, sticky) ==
  IF bits = <<>> THEN Binary64Zero
  ELSE IF Len(bits) <= Precision
  THEN Binary64(bits \o Zeros(Precision - Len(bits)),
                e - (Precision - Len(bits)))
  ELSE IF /\ bits[Precision + 1] = 1
          /\ \/ sticky
             \/ \E i \in (Precision + 2)..Len(bits) : bits[i] = 1
             \/ bits[Precision] = 1
  THEN RoundedUp(SubSeq(bits, 1, Precision), e + Len(bits) - Precision)
  ELSE Binary64(SubSeq(bits, 1, Precision), e + Len(bits) - Precision)

\* the binary64 of an exact value of the model: 0 or a positive integer
AsBinary64(v) == IF IsBinary64(v) THEN v ELSE Nearest(BitsOf(v[1]), 0, FALSE)

\* a + b in binary64
AddAligned(a, b, e) ==
  Nearest(BitsAdd(a[1] \o Zeros(a[2] - e), b[1] \o Zeros(b[2] - e)), e, FALSE)

Binary64Add(a, b) ==
  IF a[1] = <<>> THEN b
  ELSE IF b[1] = <<>> THEN a
  ELSE AddAligned(a, b, IF a[2] < b[2] THEN a[2] ELSE b[2])

\* a / n in binary64 for an integer 0 < n < 64: the quotient is taken with
\* 8 more bits, and a remainder makes it inexact
Binary64DivRounded(d, e) == Nearest(d.q, e, d.r # 0)

Binary64Div(a, n) ==
  IF a[1] = <<>> THEN a
  ELSE Binary64DivRounded(BitsDiv(a[1] \o Zeros(8), n), a[2] - 8)

\* a < b for naturals without leading zeros
BitsLess(a, b) ==
  \/ Len(a) < Len(b)
  \/ /\ Len(a) = Len(b)
     /\ \E i \in 1..Len(a) :
          a[i] < b[i] /\ \A j \in 1..(i - 1) : a[j] = b[j]

\* the borrow out of bit i of a - b for two naturals of equal length: some
\* lower bit generates it and every bit between passes it on
Borrow(a, b, i) ==
  IF \E j \in (i + 1)..Len(a) :
       /\ a[j] < b[j]
       /\ \A k \in (i + 1)..(j - 1) : a[k] = b[k]
  THEN 1 ELSE 0

\* a - b for naturals a >= b; b is padded with leading zeros
BitsSubEqual(a, b) ==
  Strip([i \in 1..Len(a) |-> (a[i] - b[i] - Borrow(a, b, i) + 2) % 2])

BitsSub(a, b) == BitsSubEqual(a, Zeros(Len(a) - Len(b)) \o b)

\* a < b in binary64
LessAligned(a, b, e) ==
  BitsLess(a[1] \o Zeros(a[2] - e), b[1] \o Zeros(b[2] - e))

Binary64Less(a, b) ==
  IF b[1] = <<>> THEN FALSE
  ELSE IF a[1] = <<>> THEN TRUE
  ELSE LessAligned(a, b, IF a[2] < b[2] THEN a[2] ELSE b[2])

\* a - b in binary64 for a >= b
SubAligned(a, b, e) ==
  Nearest(BitsSub(a[1] \o Zeros(a[2] - e), b[1] \o Zeros(b[2] - e)), e, FALSE)

Binary64Sub(a, b) ==
  IF b[1] = <<>> THEN a
  ELSE SubAligned(a, b, IF a[2] < b[2] THEN a[2] ELSE b[2])

\* 0x1.hhhhhhhhhhhhhp+p: the significand as its 13 hexadecimal digits
HexBits(d) == <<d \div 8, (d \div 4) % 2, (d \div 2) % 2, d % 2>>

RECURSIVE HexDigits(_)
HexDigits(h) ==
  IF h = <<>> THEN <<>> ELSE HexBits(Head(h)) \o HexDigits(Tail(h))

Hex64(h, p) == Binary64(<<1>> \o HexDigits(h), p - (Precision - 1))

\* the doubles nearest to 0.1, 0.3, 0.7, 1.1, 3.3, 5.1 and 0.9
Tenth == Hex64(<<9, 9, 9, 9, 9, 9, 9, 9, 9, 9, 9, 9, 10>>, -4)

ThreeTenths == Hex64(<<3, 3, 3, 3, 3, 3, 3, 3, 3, 3, 3, 3, 3>>, -2)

SevenTenths == Hex64(<<6, 6, 6, 6, 6, 6, 6, 6, 6, 6, 6, 6, 6>>, -1)

ElevenTenths == Hex64(<<1, 9, 9, 9, 9, 9, 9, 9, 9, 9, 9, 9, 10>>, 0)

ThirtyThreeTenths == Hex64(<<10, 6, 6, 6, 6, 6, 6, 6, 6, 6, 6, 6, 6>>, 1)

FiftyOneTenths == Hex64(<<4, 6, 6, 6, 6, 6, 6, 6, 6, 6, 6, 6, 6>>, 2)

NineTenths == Hex64(<<12, 12, 12, 12, 12, 12, 12, 12, 12, 12, 12, 12, 13>>, -1)

\* a + b and a / n of doubles: exact values of the model stay exact, and a
\* binary64 operand makes the operation a binary64 one
Plus(a, b) ==
  IF IsExact(a) /\ IsExact(b) THEN QAdd(a, b)
  ELSE Binary64Add(AsBinary64(a), AsBinary64(b))

Over(a, n) ==
  IF IsExact(a) THEN QDiv(a, I(n)) ELSE Binary64Div(a, n)

(***************************************************************************)
(* closest_segment_point of three points of the x axis whose abscissas are *)
(* doubles, 0 <= segment_p0 < segment_p1, with p not strictly between the  *)
(* two.  d * (p - segment_p0) and d.norm_square() are then the single      *)
(* products fl(dx * ux) and fl(dx * dx) of dx = fl(p1 - p0) > 0 and        *)
(* ux = fl(p - p0).  Rounding keeps the order: p >= segment_p1 gives       *)
(* ux >= dx, a quotient t >= 1 and std::min(1.0, t) = 1, and               *)
(* p <= segment_p0 gives ux <= 0, t <= 0 and std::max(0.0, t) = 0; t * d   *)
(* is then d or 0 without rounding, and the sum segment_p0 + t * d is      *)
(* rounded.                                                                *)
(***************************************************************************)
closest_segment_point_binary64(p, segment_p0, segment_p1) ==
  LET d == Binary64Sub(segment_p1[1], segment_p0[1])
      t == IF Binary64Less(p[1], segment_p1[1]) THEN Zero ELSE One
  IN  P3(Plus(segment_p0[1], IF t = One THEN d ELSE Binary64Zero), Zero, Zero)

\* ------------------------------------------------------------- maps, vectors

\* std::map<std::string, std::vector<...>>: a function on the names it holds
EmptyMap == [n \in {} |-> <<>>]

Has(m, k) == k \in DOMAIN m

MapPut(m, k, v) == [n \in DOMAIN m \cup {k} |-> IF n = k THEN v ELSE m[n]]

\* m[k] of std::map::operator[]: an absent k is inserted with an empty vector
MapIndex(m, k) == IF Has(m, k) THEN m ELSE MapPut(m, k, <<>>)

\* std::vector::resize(n): new elements are value-initialised
Resize(v, n, dflt) ==
  IF n <= Len(v) THEN SubSeq(v, 1, n)
  ELSE v \o [i \in 1..(n - Len(v)) |-> dflt]

Fill(n, dflt) == [i \in 1..n |-> dflt]

\* ------------------------------------------------------------- SurfaceInterpolator3D: data

\* the members of a SurfaceInterpolator3D; triangles hold 0-based point indices
clear ==
  [ points             |-> <<>>,
    triangles          |-> <<>>,
    cell_fields        |-> EmptyMap,
    point_fields       |-> EmptyMap,
    cell_vector_fields |-> EmptyMap,
    triangle_cache     |-> <<>> ]

IndexValid(st, id) == id + 1 <= Len(st.points)

TriangleValid(st, v) == \A k \in 1..3 : IndexValid(st, v[k])

\* points[id], where out of range reads what happens to be there (oob)
PointAt(st, id, oob) == IF IndexValid(st, id) THEN st.points[id + 1] ELSE oob

\* preprocess(), with oob the point an out-of-range points[v[k]] reads
preprocess_reading(st, oob) ==
  LET n     == Len(st.triangles)
      cache == [i \in 1..n |->
                  LET v == st.triangles[i]
                  IN  reinit(PointAt(st, v[1], oob), PointAt(st, v[2], oob),
                             PointAt(st, v[3], oob))]
      cf    == MapPut(MapPut(st.cell_fields,
                 "area", [i \in 1..n |-> area(cache[i])]),
                 "longest_side", [i \in 1..n |-> longest_side(cache[i])])
      cvf   == MapPut(MapPut(st.cell_vector_fields,
                 "center", [i \in 1..n |-> center(cache[i])]),
                 "normal", [i \in 1..n |-> normal(cache[i])])
  IN  [st EXCEPT !.cell_fields = cf, !.cell_vector_fields = cvf,
                 !.triangle_cache = cache]

\* ------------------------------------------------------------- files

(***************************************************************************)
(* A file is the sequence of its whitespace-separated tokens, as           *)
(* operator>> reads it.  A token is [s, a, q, gt]: s its text (up to and   *)
(* including the = of an attribute; "0" for a numeral), a the quoted value *)
(* of an attribute, q the number a numeral denotes, gt whether the token   *)
(* ends with >.  A stream is [toks, pos, fail].                            *)
(***************************************************************************)
Kw(w) == [s |-> w, a |-> "", q |-> Zero, gt |-> FALSE]

Num(v) == [s |-> "0", a |-> "", q |-> v, gt |-> FALSE]

N(n) == Num(I(n))

NoTok == Kw("")

Open(toks) == [toks |-> toks, pos |-> 1, fail |-> FALSE]

Good(in) == ~in.fail /\ in.pos <= Len(in.toks)

\* file >> s for a std::string s: s is left alone when the sentry fails
TokStr(in, old) == IF Good(in) THEN in.toks[in.pos] ELSE old

GetStr(in) ==
  IF Good(in) THEN [in EXCEPT !.pos = @ + 1] ELSE [in EXCEPT !.fail = TRUE]

RECURSIVE GetStrs(_, _)
GetStrs(in, k) == IF k = 0 THEN in ELSE GetStrs(GetStr(in), k - 1)

NumNext(in) == Good(in) /\ in.toks[in.pos].s = "0"

\* the sentry of operator>> fails, and nothing is extracted or stored, when
\* the stream has failed before or has no token left
Untouched(in) == in.fail \/ in.pos > Len(in.toks)

\* file >> x for a number x: 0 is stored when the token is not a number, and
\* x is left alone when the sentry fails
TokNum(in, old) ==
  IF NumNext(in) THEN in.toks[in.pos].q
  ELSE IF Untouched(in) THEN old ELSE Zero

GetNum(in) ==
  IF NumNext(in) THEN [in EXCEPT !.pos = @ + 1] ELSE [in EXCEPT !.fail = TRUE]

\* the extraction of Len(olds) numbers in a row: [vals, in]
RECURSIVE read_numbers(_, _, _)
read_numbers(in, olds, acc) ==
  IF Len(acc) = Len(olds) THEN [vals |-> acc, in |-> in]
  ELSE read_numbers(GetNum(in), olds,
                    Append(acc, TokNum(in, olds[Len(acc) + 1])))

\* an unsigned integer read from a numeral
AsIndex(v) == v[1]

\* ------------------------------------------------------------- read_vtk

\* the state of read_vtk's loop: the stream, the members (st), the strings s,
\* data_type and data_name, what was thrown (err), and whether a count that
\* was never stored was used (ub)
ReadS(ps) == [ps EXCEPT !.s = TokStr(ps.in, @), !.in = GetStr(@)]

ReadName(ps) == [ps EXCEPT !.data_name = TokStr(ps.in, Kw(@)).s, !.in = GetStr(@)]

RECURSIVE ReadSs(_, _)
ReadSs(ps, k) == IF k = 0 THEN ps ELSE ReadSs(ReadS(ps), k - 1)

\* file >> n for an unsigned int n declared without a value
ReadCount(ps) == [ps EXCEPT !.in = GetNum(@), !.ub = @ \/ Untouched(ps.in)]

RECURSIVE vtk_points_loop(_, _, _)
vtk_points_loop(ps, i, n) ==
  IF i >= n THEN ps
  ELSE LET r == read_numbers(ps.in, ps.st.points[i + 1], <<>>)
       IN  vtk_points_loop([ps EXCEPT !.in = r.in,
                                      !.st.points[i + 1] = r.vals], i + 1, n)

vtk_points(ps) ==
  LET n   == AsIndex(TokNum(ps.in, Zero))
      ps2 == ReadS(ReadCount(ps))
  IN  vtk_points_loop([ps2 EXCEPT !.st.points = Resize(@, n, Origin3)], 0, n)

\* a loop that takes a cell record of any count for a triangle: not what
\* the code does
RECURSIVE vtk_cells_loop_any(_, _, _)
vtk_cells_loop_any(ps, i, n) ==
  IF i >= n THEN ps
  ELSE LET ps1 == ReadS(ps)
           old == ps1.st.triangles[i + 1]
           r   == read_numbers(ps1.in, [k \in 1..3 |-> I(old[k])], <<>>)
       IN  vtk_cells_loop_any(
             [ps1 EXCEPT !.in = r.in,
                         !.st.triangles[i + 1] =
                           [k \in 1..3 |-> AsIndex(r.vals[k])]],
             i + 1, n)

\* a cell record whose count is not the string "3" throws
RECURSIVE vtk_cells_loop(_, _, _)
vtk_cells_loop(ps, i, n) ==
  IF i >= n THEN ps
  ELSE LET ps1 == ReadS(ps)
       IN  IF ~(ps1.s.s = "0" /\ ps1.s.q = I(3))
           THEN [ps1 EXCEPT !.err = "format_error"]
           ELSE LET old == ps1.st.triangles[i + 1]
                    r   == read_numbers(ps1.in,
                                        [k \in 1..3 |-> I(old[k])], <<>>)
                IN  vtk_cells_loop(
                      [ps1 EXCEPT !.in = r.in,
                                  !.st.triangles[i + 1] =
                                    [k \in 1..3 |-> AsIndex(r.vals[k])]],
                      i + 1, n)

vtk_cells(ps) ==
  LET n   == AsIndex(TokNum(ps.in, Zero))
      ps2 == ReadS(ReadCount(ps))
  IN  vtk_cells_loop([ps2 EXCEPT !.st.triangles = Resize(@, n, <<0, 0, 0>>)],
                     0, n)

\* the vector a SCALARS or FIELD array is read into: cell_fields[data_name]
\* when data_type is CELL_DATA, point_fields[data_name] otherwise; N values
\* are extracted, whatever the file holds
vtk_array(ps) ==
  LET cell == ps.data_type = "CELL_DATA"
      n    == IF cell THEN Len(ps.st.triangles) ELSE Len(ps.st.points)
      m    == IF cell THEN ps.st.cell_fields ELSE ps.st.point_fields
      f    == Resize(MapIndex(m, ps.data_name)[ps.data_name], n, Zero)
      r    == read_numbers(ps.in, f, <<>>)
      m2   == MapPut(m, ps.data_name, r.vals)
  IN  IF cell THEN [ps EXCEPT !.in = r.in, !.st.cell_fields = m2]
      ELSE [ps EXCEPT !.in = r.in, !.st.point_fields = m2]

\* SCALARS <name> <type> LOOKUP_TABLE <table> and the values
vtk_scalars(ps) == vtk_array(ReadSs(ReadName(ps), 3))

RECURSIVE vtk_field_loop(_, _, _)
vtk_field_loop(ps, k, n_fields) ==
  IF k >= n_fields THEN ps
  ELSE vtk_field_loop(vtk_array(ReadSs(ReadName(ps), 3)), k + 1, n_fields)

\* FIELD FieldData <n_fields> and the arrays
vtk_field(ps) ==
  LET ps1      == ReadS(ps)
      n_fields == AsIndex(TokNum(ps1.in, Zero))
  IN  vtk_field_loop(ReadCount(ps1), 0, n_fields)

\* the else branch of the loop, ps.s the token just read
vtk_data(ps0) ==
  LET ps1 == IF ps0.s.s \in {"CELL_DATA", "POINT_DATA"}
             THEN [ps0 EXCEPT !.data_type = ps0.s.s]
             ELSE ps0
      ps2 == IF ps1.s.s = "SCALARS" THEN vtk_scalars(ps1) ELSE ps1
  IN  IF ps2.s.s = "FIELD" THEN vtk_field(ps2) ELSE ps2

RECURSIVE vtk_loop(_)
vtk_loop(ps) ==
  IF ps.err # "" \/ ~Good(ps.in) THEN ps
  ELSE LET ps1 == ReadS(ps)
       IN  IF ps1.s.s = "POINTS" THEN vtk_loop(vtk_points(ps1))
           ELSE IF ps1.s.s = "CELLS" THEN vtk_loop(vtk_cells(ps1))
           ELSE vtk_loop(vtk_data(ps1))

\* read_vtk up to preprocess(): [st, err, ub]
read_vtk_parse(toks) ==
  vtk_loop([in |-> Open(toks), st |-> clear, data_type |-> "",
            data_name |-> "", s |-> NoTok, err |-> "", ub |-> FALSE])

\* ------------------------------------------------------------- read_vtu

Attr(w, v, close) == [s |-> w, a |-> v, q |-> Zero, gt |-> close]

Tag(w) == [s |-> w, a |-> "", q |-> Zero, gt |-> TRUE]

\* NumberOfPoints="n" and the like: q is string_to_int of the quoted text
Count(w, n, close) == [s |-> w, a |-> "", q |-> I(n), gt |-> close]

\* Utilities::match_at_string_start(s, prefix) on the tokens of these files
StartsNumberOf(t) ==
  t.s \in {"NumberOfPoints=", "NumberOfCells=", "NumberOfComponents="}

StartsCellOrPoint(t) ==
  t.s \in {"<CellData>", "<Cells>", "<PointData>", "<Points>"}

\* std::stod and std::stoul of a data token: they throw on a non-numeral
stod(t) == t.q

stoul(t) == AsIndex(t.q)

AllNumerals(data) == \A i \in 1..Len(data) : data[i].s = "0"

\* the number of leading data tokens std::stod and std::stoul convert before
\* one of them throws
RECURSIVE Converted(_, _)
Converted(data, k) ==
  IF k < Len(data) /\ data[k + 1].s = "0" THEN Converted(data, k + 1) ELSE k

\* field.resize(n) and the conversion loop, which stops at the first throw
vtu_scalars(old, data) ==
  LET n    == Len(data)
      done == Converted(data, 0)
      f    == Resize(old, n, Zero)
  IN  [i \in 1..n |-> IF i <= done THEN stod(data[i]) ELSE f[i]]

\* the processing of one data array at </DataArray>
vtu_array(ps, data) ==
  LET n    == Len(data)
      done == Converted(data, 0)
      err  == IF AllNumerals(data) THEN "" ELSE "invalid_argument"
  IN  IF ps.data_type = "<CellData>"
      THEN IF n # Len(ps.st.triangles) THEN [ps EXCEPT !.err = "format_error"]
           ELSE [ps EXCEPT
                   !.err = err,
                   !.st.cell_fields =
                      MapPut(@, ps.data_name,
                             vtu_scalars(IF Has(@, ps.data_name)
                                         THEN @[ps.data_name] ELSE <<>>, data))]
      ELSE IF ps.data_type = "<PointData>"
      THEN IF n # Len(ps.st.points) THEN [ps EXCEPT !.err = "format_error"]
           ELSE [ps EXCEPT
                   !.err = err,
                   !.st.point_fields =
                      MapPut(@, ps.data_name,
                             vtu_scalars(IF Has(@, ps.data_name)
                                         THEN @[ps.data_name] ELSE <<>>, data))]
      ELSE IF ps.data_type = "<Points>"
      THEN IF n # 3 * Len(ps.st.points) THEN [ps EXCEPT !.err = "format_error"]
           ELSE [ps EXCEPT
                   !.err = err,
                   !.st.points =
                      [i \in 1..(n \div 3) |->
                         IF 3 * i <= done
                         THEN P3(stod(data[3 * i - 2]), stod(data[3 * i - 1]),
                                 stod(data[3 * i]))
                         ELSE @[i]]]
      ELSE IF ps.data_type = "<Cells>" /\ ps.data_name = "connectivity"
      THEN IF n # 3 * Len(ps.st.triangles)
           THEN [ps EXCEPT !.err = "format_error"]
           ELSE [ps EXCEPT
                   !.err = err,
                   !.st.triangles =
                      [i \in 1..(n \div 3) |->
                         IF 3 * i <= done
                         THEN <<stoul(data[3 * i - 2]), stoul(data[3 * i - 1]),
                                stoul(data[3 * i])>>
                         ELSE @[i]]]
      ELSE ps

\* the inner loop: tokens are appended to data up to </DataArray>
RECURSIVE vtu_data_loop(_, _)
vtu_data_loop(ps, data) ==
  IF ~Good(ps.in) THEN [ps EXCEPT !.in = GetStr(ps.in)]
  ELSE LET s   == TokStr(ps.in, NoTok)
           ps1 == [ps EXCEPT !.in = GetStr(ps.in)]
       IN  IF s.s = "</DataArray>"
           THEN LET done == vtu_array(ps1, data)
                IN  IF done.err # "" THEN done
                    ELSE [done EXCEPT !.data_start = FALSE, !.data_name = ""]
           ELSE vtu_data_loop(ps1, Append(data, s))

RECURSIVE vtu_loop(_)
vtu_loop(ps) ==
  IF ps.err # "" \/ ~Good(ps.in) THEN ps
  ELSE LET s   == TokStr(ps.in, NoTok)
           ps1 == [ps EXCEPT !.in = GetStr(ps.in)]
       IN  IF StartsNumberOf(s)
           THEN LET n == AsIndex(s.q)
                IN  IF s.s = "NumberOfPoints="
                    THEN vtu_loop([ps1 EXCEPT !.st.points =
                                     Resize(@, n, Origin3)])
                    ELSE IF s.s = "NumberOfCells="
                    THEN vtu_loop([ps1 EXCEPT !.st.triangles =
                                     Resize(@, n, <<0, 0, 0>>)])
                    ELSE vtu_loop(ps1)
           ELSE LET ps2 == IF StartsCellOrPoint(s)
                           THEN [ps1 EXCEPT !.data_type = s.s] ELSE ps1
                    ps3 == IF s.s = "Name="
                           THEN [ps2 EXCEPT !.data_name = s.a] ELSE ps2
                    ps4 == IF s.s = "<DataArray"
                           THEN [ps3 EXCEPT !.data_start = TRUE] ELSE ps3
                IN  IF ps4.data_start /\ s.gt
                    THEN vtu_loop(vtu_data_loop(ps4, <<>>))
                    ELSE vtu_loop(ps4)

\* read_vtu up to preprocess(): [st, err]
read_vtu_parse(toks) ==
  vtu_loop([in |-> Open(toks), st |-> clear, data_type |-> "",
            data_name |-> "", data_start |-> FALSE, err |-> ""])

\* ------------------------------------------------------------- write_vtu

\* the field names of the model in the order std::map iterates them
NameOrder ==
  <<"", "area", "center", "longest_side", "normal", "q", "r", "zz">>

Keys(m) == SelectSeq(NameOrder, LAMBDA n : n \in DOMAIN m)

RECURSIVE Terminating(_)
Terminating(d) ==
  IF d % 2 = 0 THEN Terminating(d \div 2)
  ELSE IF d % 5 = 0 THEN Terminating(d \div 5)
  ELSE d = 1

(***************************************************************************)
(* What std::stod reads back from  << std::scientific <<                   *)
(* std::setprecision(14) << v : v itself when the numeral of 15            *)
(* significant digits is exact (an integer or a short                      *)
(* decimal fraction; all numbers of the model have few digits), the double *)
(* nearest to the rounded numeral otherwise.                               *)
(***************************************************************************)
scientific(v) ==
  IF IsExact(v)
  THEN IF IsNaN(v) \/ Terminating(v[2]) THEN v ELSE <<v[1], v[2], 2>>
  ELSE IF v[3] = 1 THEN <<v[1], v[2], 3>> ELSE v

RECURSIVE Flatten(_)
Flatten(ss) == IF ss = <<>> THEN <<>> ELSE Head(ss) \o Flatten(Tail(ss))

NumToks(vals) == [i \in 1..Len(vals) |-> Num(scientific(vals[i]))]

PointToks(ps) == Flatten([i \in 1..Len(ps) |-> NumToks(ps[i])])

ScalarArray(name, vals) ==
  <<Kw("<DataArray"), Attr("type=", "Float64", FALSE),
    Attr("Name=", name, FALSE), Attr("format=", "ascii", TRUE)>>
  \o NumToks(vals) \o <<Tag("</DataArray>")>>

VectorArray(name, vals) ==
  <<Kw("<DataArray"), Attr("type=", "Float64", FALSE),
    Attr("Name=", name, FALSE), Count("NumberOfComponents=", 3, FALSE),
    Attr("format=", "ascii", TRUE)>>
  \o PointToks(vals) \o <<Tag("</DataArray>")>>

IntArray(type, name, ints) ==
  <<Kw("<DataArray"), Attr("type=", type, FALSE),
    Attr("Name=", name, FALSE), Attr("format=", "ascii", TRUE)>>
  \o [i \in 1..Len(ints) |-> N(ints[i])] \o <<Tag("</DataArray>")>>

\* the tokens of the file write_vtu writes
write_vtu(st) ==
  LET n_points    == Len(st.points)
      n_triangles == Len(st.triangles)
      ck == Keys(st.cell_fields)
      vk == Keys(st.cell_vector_fields)
      pk == Keys(st.point_fields)
  IN  <<Kw("<?xml"), Attr("version=", "1.0?", TRUE),
        Kw("<VTKFile"), Attr("type=", "UnstructuredGrid", FALSE),
        Attr("version=", "0.1", FALSE),
        Attr("byte_order=", "LittleEndian", TRUE),
        Tag("<UnstructuredGrid>"),
        Kw("<Piece"), Count("NumberOfPoints=", n_points, FALSE),
        Count("NumberOfCells=", n_triangles, TRUE)>>
      \o <<Tag("<CellData>")>>
      \o Flatten([i \in 1..Len(ck) |->
                    ScalarArray(ck[i], st.cell_fields[ck[i]])])
      \o Flatten([i \in 1..Len(vk) |->
                    VectorArray(vk[i], st.cell_vector_fields[vk[i]])])
      \o <<Tag("</CellData>")>>
      \o <<Tag("<PointData>")>>
      \o Flatten([i \in 1..Len(pk) |->
                    ScalarArray(pk[i], st.point_fields[pk[i]])])
      \o <<Tag("</PointData>")>>
      \o <<Tag("<Points>"),
           Kw("<DataArray"), Attr("type=", "Float32", FALSE),
           Count("NumberOfComponents=", 3, FALSE),
           Attr("format=", "ascii", TRUE)>>
      \o PointToks(st.points)
      \o <<Tag("</DataArray>"), Tag("</Points>")>>
      \o <<Tag("<Cells>")>>
      \o IntArray("Int32", "connectivity", Flatten(st.triangles))
      \o IntArray("Int32", "offsets", [i \in 1..n_triangles |-> 3 * i])
      \o IntArray("UInt8", "types", [i \in 1..n_triangles |-> 5])
      \o <<Tag("</Cells>"), Tag("</Piece>"), Tag("</UnstructuredGrid>"),
           Tag("</VTKFile>")>>

\* ------------------------------------------------------------- input files

Nums(ints) == [i \in 1..Len(ints) |-> N(ints[i])]

VtkHeader ==
  <<Kw("#"), Kw("vtk"), Kw("DataFile"), Kw("Version"), Num(Q(21, 5)),
    Kw("surface"), Kw("ASCII"), Kw("DATASET"), Kw("UNSTRUCTURED_GRID")>>

VtkPoints(n) == <<Kw("POINTS"), N(n), Kw("float")>>

VtkCells(n) == <<Kw("CELLS"), N(n), N(4 * n)>>

VtkCellTypes(n) == <<Kw("CELL_TYPES"), N(n)>> \o [i \in 1..n |-> N(5)]

VtkScalars(name) ==
  <<Kw("SCALARS"), Kw(name), Kw("double"), Kw("LOOKUP_TABLE"), Kw("default")>>

VtkField(name, n) ==
  <<Kw("FIELD"), Kw("FieldData"), N(1), Kw(name), N(1), N(n), Kw("double")>>

\* the unit right triangle, cell value 5, point values 1, 2, 3
VtkUnit ==
  VtkHeader
  \o VtkPoints(3) \o Nums(<<0, 0, 0,  1, 0, 0,  0, 1, 0>>)
  \o VtkCells(1) \o Nums(<<3, 0, 1, 2>>)
  \o VtkCellTypes(1)
  \o <<Kw("CELL_DATA"), N(1)>> \o VtkScalars("q") \o Nums(<<5>>)
  \o <<Kw("POINT_DATA"), N(3)>> \o VtkScalars("q") \o Nums(<<1, 2, 3>>)

\* a small triangle next to (1,0,0) and a large tilted one farther away
VtkNearFar ==
  VtkHeader
  \o VtkPoints(6)
  \o Nums(<<1, 0, 0>>) \o <<Num(Q(5, 4)), N(0), N(0)>>
  \o <<N(1), Num(Q(1, 4)), N(0)>>
  \o Nums(<<0, 2, 0,  2, 2, 0,  0, 3, 2>>)
  \o VtkCells(2) \o Nums(<<3, 0, 1, 2,  3, 3, 4, 5>>)
  \o VtkCellTypes(2)
  \o <<Kw("CELL_DATA"), N(2)>> \o VtkScalars("q") \o Nums(<<10, 20>>)
  \o <<Kw("POINT_DATA"), N(6)>> \o VtkScalars("q")
  \o Nums(<<1, 2, 3, 4, 5, 6>>)

\* two overlapping triangles: vertex 3 = (1,0,0) of the second lies on an
\* edge of the first; the data come as FIELD arrays
VtkOverlap ==
  VtkHeader
  \o VtkPoints(4) \o Nums(<<0, 0, 0,  2, 0, 0,  0, 2, 0,  1, 0, 0>>)
  \o VtkCells(2) \o Nums(<<3, 0, 1, 2,  3, 3, 1, 2>>)
  \o VtkCellTypes(2)
  \o <<Kw("CELL_DATA"), N(2)>> \o VtkField("q", 2) \o Nums(<<1, 2>>)
  \o <<Kw("POINT_DATA"), N(4)>> \o VtkField("q", 4) \o Nums(<<1, 2, 3, 7>>)

\* zero-area triangles: three collinear points, and a repeated vertex
VtkDegenerate ==
  VtkHeader
  \o VtkPoints(3) \o Nums(<<0, 0, 0,  1, 0, 0,  2, 0, 0>>)
  \o VtkCells(2) \o Nums(<<3, 0, 1, 2,  3, 1, 1, 2>>)
  \o VtkCellTypes(2)
  \o <<Kw("CELL_DATA"), N(2)>> \o VtkScalars("q") \o Nums(<<4, 6>>)
  \o <<Kw("POINT_DATA"), N(3)>> \o VtkScalars("q") \o Nums(<<1, 2, 3>>)

\* the two triangles of degenerate and a fourth point in no triangle
VtkIsolated ==
  VtkHeader
  \o VtkPoints(4) \o Nums(<<0, 0, 0,  1, 0, 0,  2, 0, 0,  5, 5, 5>>)
  \o VtkCells(2) \o Nums(<<3, 0, 1, 2,  3, 1, 1, 2>>)
  \o VtkCellTypes(2)
  \o <<Kw("CELL_DATA"), N(2)>> \o VtkScalars("q") \o Nums(<<4, 6>>)
  \o <<Kw("POINT_DATA"), N(4)>> \o VtkScalars("q") \o Nums(<<1, 2, 3, 9>>)

\* one small triangle far from every target point
VtkFar ==
  VtkHeader
  \o VtkPoints(3)
  \o Nums(<<3, 0, 0>>) \o <<Num(Q(13, 4)), N(0), N(0)>>
  \o <<N(3), Num(Q(1, 4)), N(0)>>
  \o VtkCells(1) \o Nums(<<3, 0, 1, 2>>)
  \o VtkCellTypes(1)
  \o <<Kw("CELL_DATA"), N(1)>> \o VtkScalars("q") \o Nums(<<8>>)
  \o <<Kw("POINT_DATA"), N(3)>> \o VtkScalars("q") \o Nums(<<1, 2, 3>>)

\* points only: no CELLS section
VtkNoCells ==
  VtkHeader
  \o VtkPoints(2) \o Nums(<<0, 0, 0,  1, 0, 0>>)
  \o <<Kw("POINT_DATA"), N(2)>> \o VtkScalars("q") \o Nums(<<1, 2>>)

\* the second cell record declares 4 vertices
VtkQuad ==
  VtkHeader
  \o VtkPoints(3) \o Nums(<<0, 0, 0,  1, 0, 0,  0, 1, 0>>)
  \o <<Kw("POINT_DATA"), N(3)>> \o VtkScalars("q") \o Nums(<<1, 2, 3>>)
  \o <<Kw("CELLS"), N(2), N(9)>> \o Nums(<<3, 0, 1, 2,  4, 0, 1, 2, 2>>)
  \o VtkCellTypes(2)

\* a large triangle in the plane z = 91 and, below it, a triangle of sides
\* 9, 12, 15 with center (3, 4, 0): the point (3, 4, 45) is at 3 times the
\* longest side from that center, and nearer to the second triangle
VtkBoundary ==
  VtkHeader
  \o VtkPoints(6)
  \o Nums(<<0, 0, 91,  11, 0, 91,  0, 11, 91>>)
  \o Nums(<<0, 0, 0,  9, 0, 0,  0, 12, 0>>)
  \o VtkCells(2) \o Nums(<<3, 0, 1, 2,  3, 3, 4, 5>>)
  \o VtkCellTypes(2)
  \o <<Kw("CELL_DATA"), N(2)>> \o VtkScalars("q") \o Nums(<<10, 20>>)
  \o <<Kw("POINT_DATA"), N(6)>> \o VtkScalars("q")
  \o Nums(<<1, 2, 3, 4, 5, 6>>)

\* the first cell record declares 2 vertices
VtkSegmentCell ==
  VtkHeader
  \o VtkPoints(3) \o Nums(<<0, 0, 0,  1, 0, 0,  0, 1, 0>>)
  \o <<Kw("CELLS"), N(2), N(7)>> \o Nums(<<2, 0, 1,  3, 0, 1, 2>>)
  \o VtkCellTypes(2)
  \o <<Kw("CELL_DATA"), N(2)>> \o VtkScalars("q") \o Nums(<<4, 6>>)

\* the cell field holds 1 value for 2 cells, the point field 2 for 3 points
VtkShortField ==
  VtkHeader
  \o VtkPoints(3) \o Nums(<<0, 0, 0,  1, 0, 0,  0, 1, 0>>)
  \o VtkCells(2) \o Nums(<<3, 0, 1, 2,  3, 0, 2, 1>>)
  \o VtkCellTypes(2)
  \o <<Kw("CELL_DATA"), N(2)>> \o VtkScalars("q") \o Nums(<<4>>)
  \o <<Kw("POINT_DATA"), N(3)>> \o VtkScalars("q") \o Nums(<<1, 2>>)

\* the cell field holds 2 values for 1 cell
VtkLongField ==
  VtkHeader
  \o VtkPoints(3) \o Nums(<<0, 0, 0,  1, 0, 0,  0, 1, 0>>)
  \o VtkCells(1) \o Nums(<<3, 0, 1, 2>>)
  \o VtkCellTypes(1)
  \o <<Kw("CELL_DATA"), N(1)>> \o VtkScalars("q") \o Nums(<<5, 6>>)
  \o <<Kw("POINT_DATA"), N(3)>> \o VtkScalars("q") \o Nums(<<1, 2, 3>>)

\* the file ends after the word POINTS
VtkTruncated == VtkHeader \o <<Kw("POINTS")>>

\* the triangle names point 7 of 3
VtkBadIndex ==
  VtkHeader
  \o VtkPoints(3) \o Nums(<<0, 0, 0,  1, 0, 0,  0, 1, 0>>)
  \o VtkCells(1) \o Nums(<<3, 0, 1, 7>>)
  \o VtkCellTypes(1)
  \o <<Kw("CELL_DATA"), N(1)>> \o VtkScalars("q") \o Nums(<<5>>)

\* surfaces for a cell field of one value: the unit triangle, the square of
\* two triangles, six triangles around a point, and the two triangles of
\* isolated with a repeated vertex and a point in no triangle
Topologies ==
  [ unit     |-> [coords |-> <<0, 0, 0,  1, 0, 0,  0, 1, 0>>,
                  cells  |-> <<3, 0, 1, 2>>],
    square   |-> [coords |-> <<0, 0, 0,  1, 0, 0,  1, 1, 0,  0, 1, 0>>,
                  cells  |-> <<3, 0, 1, 2,  3, 0, 2, 3>>],
    fan      |-> [coords |-> <<0, 0, 0,  1, 0, 0,  1, 1, 0,  0, 1, 0,
                               -1, 0, 0,  -1, -1, 0,  0, -1, 0>>,
                  cells  |-> <<3, 0, 1, 2,  3, 0, 2, 3,  3, 0, 3, 4,
                               3, 0, 4, 5,  3, 0, 5, 6,  3, 0, 6, 1>>],
    isolated |-> [coords |-> <<0, 0, 0,  1, 0, 0,  2, 0, 0,  5, 5, 5>>,
                  cells  |-> <<3, 0, 1, 2,  3, 1, 1, 2>>] ]

\* the values of the uniform cell fields: integers and doubles that are not
UniformValues ==
  {One, I(7), Tenth, ThreeTenths, SevenTenths, ElevenTenths,
   ThirtyThreeTenths, FiftyOneTenths}

\* the file of surface t whose cell field q is v on every triangle
VtkUniform(t, v) ==
  VtkHeader
  \o VtkPoints(Len(t.coords) \div 3) \o Nums(t.coords)
  \o VtkCells(Len(t.cells) \div 4) \o Nums(t.cells)
  \o VtkCellTypes(Len(t.cells) \div 4)
  \o <<Kw("CELL_DATA"), N(Len(t.cells) \div 4)>> \o VtkScalars("q")
  \o [i \in 1..(Len(t.cells) \div 4) |-> Num(v)]

VtuOpen(n_points, n_cells) ==
  <<Kw("<?xml"), Attr("version=", "1.0?", TRUE),
    Kw("<VTKFile"), Attr("type=", "UnstructuredGrid", TRUE),
    Tag("<UnstructuredGrid>"),
    Kw("<Piece"), Count("NumberOfPoints=", n_points, FALSE),
    Count("NumberOfCells=", n_cells, TRUE)>>

VtuGeometry(coords, conn) ==
  <<Tag("<Points>"), Kw("<DataArray"), Attr("type=", "Float64", FALSE),
    Count("NumberOfComponents=", 3, FALSE), Attr("format=", "ascii", TRUE)>>
  \o Nums(coords) \o <<Tag("</DataArray>"), Tag("</Points>")>>
  \o <<Tag("<Cells>")>>
  \o IntArray("Int32", "connectivity", conn)
  \o IntArray("Int32", "offsets", [i \in 1..(Len(conn) \div 3) |-> 3 * i])
  \o IntArray("UInt8", "types", [i \in 1..(Len(conn) \div 3) |-> 5])
  \o <<Tag("</Cells>"), Tag("</Piece>"), Tag("</UnstructuredGrid>"),
       Tag("</VTKFile>")>>

\* a unit square of two triangles sharing an edge
VtuSquare ==
  VtuOpen(4, 2)
  \o <<Tag("<CellData>")>> \o ScalarArray("q", <<I(2), I(4)>>)
  \o <<Tag("</CellData>")>>
  \o <<Tag("<PointData>")>> \o ScalarArray("q", <<I(1), I(2), I(3), I(4)>>)
  \o <<Tag("</PointData>")>>
  \o VtuGeometry(<<0, 0, 0,  1, 0, 0,  1, 1, 0,  0, 1, 0>>,
                 <<0, 1, 2,  0, 2, 3>>)

\* the point array holds 3 values for 4 declared points
VtuShort ==
  VtuOpen(4, 2)
  \o <<Tag("<CellData>")>> \o ScalarArray("q", <<I(2), I(4)>>)
  \o <<Tag("</CellData>")>>
  \o <<Tag("<PointData>")>> \o ScalarArray("q", <<I(1), I(2), I(3)>>)
  \o <<Tag("</PointData>")>>
  \o VtuGeometry(<<0, 0, 0,  1, 0, 0,  1, 1, 0,  0, 1, 0>>,
                 <<0, 1, 2,  0, 2, 3>>)

\* ------------------------------------------------------------- SurfaceInterpolator3D: queries

\* field(field_type, field_name) const: the table searched and the lookup
FieldTable(st, field_type) ==
  IF field_type = "CellField" THEN st.cell_fields ELSE st.point_fields

FieldExists(st, field_type, field_name) ==
  Has(FieldTable(st, field_type), field_name)

\* the members after the other field(field_type, field_name), which is not
\* const and indexes the table with operator[]: not what interpolate calls
field_inserting(st, field_type, field_name) ==
  IF field_type = "CellField"
  THEN [st EXCEPT !.cell_fields = MapIndex(@, field_name)]
  ELSE [st EXCEPT !.point_fields = MapIndex(@, field_name)]

\* the members after field(field_type, field_name) const, the lookup of the
\* const function interpolate: find() inserts nothing
field_found(st, field_type, field_name) == st

\* 3 * triangle.longest_side()
PruneFactor == 3

\* a test that also skips a triangle whose center is at exactly 3 times its
\* longest side: not what the code does
too_far_or_at(tr, p) ==
  QLeq(QMul(I(PruneFactor * PruneFactor), tr.m_longest2),
       norm_square(VSub(p, tr.m_center)))

\* (target - triangle.center()).norm() > 3 * triangle.longest_side()
too_far(tr, p) ==
  QLess(QMul(I(PruneFactor * PruneFactor), tr.m_longest2),
        norm_square(VSub(p, tr.m_center)))

\* triangle_cache[j]; past the end of the cache the read is undefined (oob)
CacheAt(st, j, oob) ==
  IF j + 1 <= Len(st.triangle_cache) THEN st.triangle_cache[j + 1] ELSE oob

NotFound == [d2_min |-> I(-1), p_found |-> Origin3, j_found |-> 0]

\* a search step that keeps the farther triangle: not what the code does
try_triangle_farthest(tr, p, j, acc) ==
  LET p_trial == closest_triangle_point(tr, p)
      d2      == norm_square(VSub(p_trial, p))
  IN  IF QLess(acc.d2_min, d2) \/ QLess(acc.d2_min, Zero)
      THEN [d2_min |-> d2, p_found |-> p_trial, j_found |-> j]
      ELSE acc

\* if (d2 < d2_min || d2_min < 0): the trial point replaces the one found
keep_nearer(p_trial, d2, j, acc) ==
  IF QLess(d2, acc.d2_min) \/ QLess(acc.d2_min, Zero)
  THEN [d2_min |-> d2, p_found |-> p_trial, j_found |-> j]
  ELSE acc

\* d2 = (p_trial - p).norm_square()
try_point(p_trial, p, j, acc) ==
  keep_nearer(p_trial, norm_square(VSub(p_trial, p)), j, acc)

\* one step of either search loop
try_triangle(tr, p, j, acc) ==
  try_point(closest_triangle_point(tr, p), p, j, acc)

\* the first loop: triangles too far from the target are skipped
RECURSIVE pruned_search(_, _, _, _, _)
pruned_search(st, p, j, acc, oob) ==
  IF j >= Len(st.triangles) THEN acc
  ELSE LET tr == CacheAt(st, j, oob)
       IN  pruned_search(st, p, j + 1,
             IF too_far(tr, p) THEN acc ELSE try_triangle(tr, p, j, acc), oob)

\* the second loop: every triangle is checked
RECURSIVE full_search(_, _, _, _, _)
full_search(st, p, j, acc, oob) ==
  IF j >= Len(st.triangles) THEN acc
  ELSE full_search(st, p, j + 1,
                   try_triangle(CacheAt(st, j, oob), p, j, acc), oob)

\* if (d2_min < 0): the second loop runs when the first found nothing
search_again(st, p, first, oob) ==
  IF QLess(first.d2_min, Zero) THEN full_search(st, p, 0, first, oob)
  ELSE first

\* a search without the second loop: not what the code does
find_triangle_pruned_only(st, p, oob) ==
  pruned_search(st, p, 0, NotFound, oob)

\* the search of interpolate for one target point
find_triangle(st, p, oob) ==
  search_again(st, p, pruned_search(st, p, 0, NotFound, oob), oob)

\* source_field[k]; past the end the read is undefined (oob)
ValueAt(f, k, oob) == IF k + 1 <= Len(f) THEN f[k + 1] ELSE oob

\* a blend that ignores the weights: not what the code does
blend_unweighted(t3, v, source_field, oob) ==
  QDiv(QAdd(QAdd(ValueAt(source_field, v[1], oob),
                 ValueAt(source_field, v[2], oob)),
            ValueAt(source_field, v[3], oob)), I(3))

\* a blend with the weights of the first two vertices exchanged
blend_swapped(t3, v, source_field, oob) ==
  QAdd(QAdd(QMul(t3[2], ValueAt(source_field, v[1], oob)),
            QMul(t3[1], ValueAt(source_field, v[2], oob))),
       QMul(t3[3], ValueAt(source_field, v[3], oob)))

\* case PointField: target_values[i] += t3[k] * source_field[v[k]], k = 0..2
blend(t3, v, source_field, oob) ==
  QAdd(QAdd(QAdd(Zero, QMul(t3[1], ValueAt(source_field, v[1], oob))),
            QMul(t3[2], ValueAt(source_field, v[2], oob))),
       QMul(t3[3], ValueAt(source_field, v[3], oob)))

\* a cell value smoothed with the next triangle's: not what the code does
interpolated_smoothed(st, field_type, source_field, f, oobt, oobv) ==
  IF field_type = "CellField"
  THEN QDiv(QAdd(ValueAt(source_field, f.j_found, oobv),
                 ValueAt(source_field, f.j_found + 1, Zero)), I(2))
  ELSE blend(barycentric_coordinates(CacheAt(st, f.j_found, oobt), f.p_found),
             st.triangles[f.j_found + 1], source_field, oobv)

\* the value written for a target whose search found f
interpolated(st, field_type, source_field, f, oobt, oobv) ==
  IF field_type = "CellField"
  THEN ValueAt(source_field, f.j_found, oobv)
  ELSE blend(barycentric_coordinates(CacheAt(st, f.j_found, oobt), f.p_found),
             st.triangles[f.j_found + 1], source_field, oobv)

\* whether interpolate reads only inside its vectors for the target found by f
read_in_range(st, field_type, source_field, f) ==
  IF field_type = "CellField" THEN f.j_found + 1 <= Len(source_field)
  ELSE \A k \in 1..3 :
         st.triangles[f.j_found + 1][k] + 1 <= Len(source_field)

\* the loop over the target points from i on: [err, values, found, point, ub]
RECURSIVE interpolate_loop(_, _, _, _, _, _, _, _)
RECURSIVE interpolate_target(_, _, _, _, _, _, _, _, _)
interpolate_loop(st, field_type, source_field, target_points, markers, i, acc, oob) ==
  IF i > Len(target_points) THEN acc
  ELSE IF ~markers[i]
  THEN interpolate_loop(st, field_type, source_field, target_points, markers,
                        i + 1, acc, oob)
  ELSE interpolate_target(st, field_type, source_field, target_points,
                          markers, i, acc, oob,
                          find_triangle(st, target_points[i], oob.tr))

\* the rest of the loop body for the marked target i whose search found f
interpolate_target(st, field_type, source_field, target_points, markers, i, acc, oob, f) ==
  IF ~QLeq(Zero, f.d2_min)
  THEN [acc EXCEPT !.err = "interpolation_failed",
                   !.point = target_points[i],
                   !.found[i] = f]
  ELSE interpolate_loop(st, field_type, source_field, target_points,
         markers, i + 1,
         [acc EXCEPT
            !.values[i] = interpolated(st, field_type, source_field,
                                       f, oob.tr, oob.val),
            !.found[i] = f,
            !.ub = @ \/ ~read_in_range(st, field_type, source_field, f)],
         oob)

\* an interpolate that resizes target_values without zeroing what it held:
\* not what the code does
interpolate_keeping(st, field_type, field_name, target_points, markers, before, oob) ==
  IF ~FieldExists(st, field_type, field_name)
  THEN [err |-> "field_not_found", values |-> before,
        found |-> <<>>, point |-> Origin3, ub |-> FALSE]
  ELSE interpolate_loop(st, field_type,
         FieldTable(st, field_type)[field_name], target_points, markers, 1,
         [err |-> "", values |-> Resize(before, Len(target_points), Zero),
          found |-> Fill(Len(target_points), NotFound), point |-> Origin3,
          ub |-> FALSE],
         oob)

\* an interpolate that reinitialises target_values before it looks the
\* field up: not what the code does
interpolate_reinit_first(st, field_type, field_name, target_points, markers, before, oob) ==
  IF ~FieldExists(st, field_type, field_name)
  THEN [err |-> "field_not_found",
        values |-> Fill(Len(target_points), Zero),
        found |-> <<>>, point |-> Origin3, ub |-> FALSE]
  ELSE interpolate_keeping(st, field_type, field_name, target_points,
                           markers, Fill(Len(target_points), Zero), oob)

(***************************************************************************)
(* SurfaceInterpolator3D::interpolate.  before is target_values as the     *)
(* caller passed it; oob = [tr, val] is what reads past the end of         *)
(* triangle_cache and of the source field happen to find.                  *)
(***************************************************************************)
interpolate(st, field_type, field_name, target_points, markers, before, oob) ==
  IF ~FieldExists(st, field_type, field_name)
  THEN [err |-> "field_not_found", values |-> before,
        found |-> <<>>, point |-> Origin3, ub |-> FALSE]
  ELSE LET n_values == Len(target_points)
       IN  interpolate_loop(st, field_type,
             FieldTable(st, field_type)[field_name], target_points, markers, 1,
             [err |-> "", values |-> Fill(n_values, Zero),
              found |-> Fill(n_values, NotFound), point |-> Origin3,
              ub |-> (\E i \in 1..n_values : markers[i])
                     /\ Len(st.triangle_cache) < Len(st.triangles)],
             oob)

\* ------------------------------------------------------------- SurfaceInterpolator3D: convert

\* the accumulation loop of cell_to_point over the vertices of triangle i; a
\* write through an index past the end of target_field and count lands outside
\* both vectors, and a read past the end of source_field finds oob
RECURSIVE cell_to_point_loop(_, _, _, _, _, _)
cell_to_point_loop(triangles, source_field, i, k, acc, oob) ==
  IF i > Len(triangles) THEN acc
  ELSE IF k > 3
  THEN cell_to_point_loop(triangles, source_field, i + 1, 1, acc, oob)
  ELSE LET id == triangles[i][k]
       IN  cell_to_point_loop(triangles, source_field, i, k + 1,
             IF id + 1 <= Len(acc.target_field)
             THEN [acc EXCEPT
                     !.target_field[id + 1] =
                        Plus(@, ValueAt(source_field, i - 1, oob)),
                     !.count[id + 1] = @ + 1]
             ELSE acc,
             oob)

\* cell_to_point reads and writes only inside its vectors
cell_to_point_in_range(st, source_name) ==
  \A i \in 1..Len(st.triangles) :
     /\ Has(st.cell_fields, source_name)
     /\ i <= Len(st.cell_fields[source_name])
     /\ \A k \in 1..3 : st.triangles[i][k] + 1 <= Len(st.points)

\* the sum of the values f gives to the members of S
RECURSIVE SumOf(_, _)
SumOf(f, S) ==
  IF S = {} THEN Zero
  ELSE LET x == CHOOSE y \in S : TRUE
       IN  QAdd(f[x], SumOf(f, S \ {x}))

\* a conversion that counts a triangle once for a point, however often the
\* triangle names the point: not what the code does
cell_to_point_once(st, source_name, target_name, oob) ==
  LET cell_fields  == MapIndex(st.cell_fields, source_name)
      source_field == cell_fields[source_name]
      around(i) == {t \in 1..Len(st.triangles) :
                      \E k \in 1..3 : st.triangles[t][k] = i - 1}
      target_field ==
        [i \in 1..Len(st.points) |->
           IF around(i) = {} THEN Zero
           ELSE QDiv(SumOf([t \in around(i) |->
                              ValueAt(source_field, t - 1, oob)], around(i)),
                     I(Cardinality(around(i))))]
  IN  [st EXCEPT !.cell_fields = cell_fields,
                 !.point_fields = MapPut(MapIndex(st.point_fields,
                                    target_name), target_name, target_field)]

\* a cell_to_point that leaves the target field alone in its table: not what
\* the code does
cell_to_point_alone(st, source_name, target_name, oob) ==
  LET n_points     == Len(st.points)
      cell_fields  == MapIndex(st.cell_fields, source_name)
      source_field == cell_fields[source_name]
      summed == cell_to_point_loop(st.triangles, source_field, 1, 1,
                  [target_field |-> Fill(n_points, Zero),
                   count |-> Fill(n_points, 0)], oob)
      target_field == [i \in 1..n_points |->
                         IF summed.count[i] > 0
                         THEN Over(summed.target_field[i], summed.count[i])
                         ELSE summed.target_field[i]]
  IN  [st EXCEPT !.cell_fields = cell_fields,
                 !.point_fields = MapPut(EmptyMap, target_name, target_field)]

cell_to_point(st, source_name, target_name, oob) ==
  LET n_points     == Len(st.points)
      cell_fields  == MapIndex(st.cell_fields, source_name)
      source_field == cell_fields[source_name]
      summed == cell_to_point_loop(st.triangles, source_field, 1, 1,
                  [target_field |-> Fill(n_points, Zero),
                   count |-> Fill(n_points, 0)], oob)
      target_field == [i \in 1..n_points |->
                         IF summed.count[i] > 0
                         THEN Over(summed.target_field[i], summed.count[i])
                         ELSE summed.target_field[i]]
  IN  [st EXCEPT !.cell_fields = cell_fields,
                 !.point_fields = MapPut(MapIndex(st.point_fields,
                                    target_name), target_name, target_field)]

\* point_to_cell reads only inside its vectors
point_to_cell_in_range(st, source_name) ==
  \A i \in 1..Len(st.triangles) :
     /\ Has(st.point_fields, source_name)
     /\ \A k \in 1..3 :
          st.triangles[i][k] + 1 <= Len(st.point_fields[source_name])

point_to_cell(st, source_name, target_name, oob) ==
  LET n_triangles  == Len(st.triangles)
      point_fields == MapIndex(st.point_fields, source_name)
      source_field == point_fields[source_name]
      target_field ==
        [i \in 1..n_triangles |->
           LET v == st.triangles[i]
           IN  Over(Plus(Plus(Plus(Zero, ValueAt(source_field, v[1], oob)),
                              ValueAt(source_field, v[2], oob)),
                         ValueAt(source_field, v[3], oob)), 3)]
  IN  [st EXCEPT !.point_fields = point_fields,
                 !.cell_fields = MapPut(MapIndex(st.cell_fields,
                                   target_name), target_name, target_field)]

\* a convert that writes under target_name even when it is empty: not what
\* the code does
convert_as_named(st, source_type, source_name, target_type, target_name, oob) ==
  IF source_type = "CellField" /\ target_type = "PointField"
  THEN [st |-> cell_to_point(st, source_name, target_name, oob),
        err |-> "", ub |-> ~cell_to_point_in_range(st, source_name)]
  ELSE IF source_type = "PointField" /\ target_type = "CellField"
  THEN [st |-> point_to_cell(st, source_name, target_name, oob),
        err |-> "", ub |-> ~point_to_cell_in_range(st, source_name)]
  ELSE [st |-> st, err |-> "unsupported_combination", ub |-> FALSE]

\* convert: [st, err, ub]
convert(st, source_type, source_name, target_type, target_name, oob) ==
  LET target_name_updated == IF target_name = "" THEN source_name
                             ELSE target_name
  IN  IF source_type = "CellField" /\ target_type = "PointField"
      THEN [st |-> cell_to_point(st, source_name, target_name_updated, oob),
            err |-> "", ub |-> ~cell_to_point_in_range(st, source_name)]
      ELSE IF source_type = "PointField" /\ target_type = "CellField"
      THEN [st |-> point_to_cell(st, source_name, target_name_updated, oob),
            err |-> "", ub |-> ~point_to_cell_in_range(st, source_name)]
      ELSE [st |-> st, err |-> "unsupported_combination", ub |-> FALSE]

\* ------------------------------------------------------------- SurfaceInterpolator2D

\* SurfaceInterpolator2D::clear(): the members of the 2D store
clear2d == [points |-> <<>>, fields |-> EmptyMap]

\* ss >> val for every field in turn; val keeps what the last extraction left
RECURSIVE txt_values(_, _, _, _)
txt_values(in, n, val, acc) ==
  IF Len(acc) = n THEN acc
  ELSE LET v == TokNum(in, val)
       IN  txt_values(GetNum(in), n, v, Append(acc, v))

\* the first non-empty line: two column names are skipped, the rest are fields
txt_header(line) ==
  [k \in 1..(IF Len(line) > 2 THEN Len(line) - 2 ELSE 0) |-> line[k + 2].s]

\* a data line of which only the values present are stored: not what the
\* code does
txt_row_present(ps, line, oob) ==
  LET n    == Len(ps.field_names)
      vals == txt_values(GetNum(GetNum(Open(line))), n, oob, <<>>)
  IN  [ps EXCEPT !.points = Append(@, P2(TokNum(Open(line), Zero),
                                        TokNum(GetNum(Open(line)), Zero))),
                 !.field_values = [i \in 1..n |->
                                     IF i + 2 <= Len(line)
                                     THEN Append(@[i], vals[i]) ELSE @[i]]]

\* a data line; val is uninitialised (oob) until an extraction writes it
txt_row(ps, line, oob) ==
  LET in0  == Open(line)
      in1  == GetNum(in0)
      in2  == GetNum(in1)
      p    == P2(TokNum(in0, Zero), TokNum(in1, Zero))
      n    == Len(ps.field_names)
      vals == txt_values(in2, n, oob, <<>>)
  IN  [ps EXCEPT !.points = Append(@, p),
                 !.field_values = [i \in 1..n |-> Append(@[i], vals[i])],
                 !.ub = @ \/ (n > 0 /\ Untouched(in2))]

RECURSIVE txt_lines(_, _, _, _)
txt_lines(lines, l, ps, oob) ==
  IF l > Len(lines) THEN ps
  ELSE IF lines[l] = <<>> THEN txt_lines(lines, l + 1, ps, oob)
  ELSE IF ps.field_names = <<>>
  THEN LET names == txt_header(lines[l])
       IN  txt_lines(lines, l + 1,
                     [ps EXCEPT !.field_names = names,
                                !.field_values = Fill(Len(names), <<>>)], oob)
  ELSE txt_lines(lines, l + 1, txt_row(ps, lines[l], oob), oob)

\* fields[field_names[i]] = field_values[i], in order
RECURSIVE txt_store(_, _, _, _)
txt_store(fields, field_names, field_values, i) ==
  IF i > Len(field_names) THEN fields
  ELSE txt_store(MapPut(fields, field_names[i], field_values[i]),
                 field_names, field_values, i + 1)

\* read_txt of an opened file given as its lines: [st, ub]
read_txt_parse(lines, oob) ==
  LET ps == txt_lines(lines, 1,
              [points |-> <<>>, field_names |-> <<>>, field_values |-> <<>>,
               ub |-> FALSE], oob)
  IN  [st |-> [points |-> ps.points,
               fields |-> txt_store(EmptyMap, ps.field_names,
                                    ps.field_values, 1)],
       ub |-> ps.ub]

\* points[j] of the 2D store; past the end the read is undefined (oob)
Point2dAt(st, j, oob) ==
  IF j + 1 <= Len(st.points) THEN st.points[j + 1] ELSE oob

NotFound2d == [d2_min |-> I(-1), p_found |-> Origin2, j_found |-> 0]

\* what the search of one target leaves, and the segments its loop went
\* through: the pairs of points handed to closest_segment_point, in order
Searched(acc, segments) ==
  [d2_min |-> acc.d2_min, p_found |-> acc.p_found, j_found |-> acc.j_found,
   segments |-> segments]

\* a search that keeps the last of equally near segments: not what the code
\* does
RECURSIVE find_segment_last(_, _, _, _, _)
find_segment_last(st, p, j, acc, segments) ==
  IF j + 1 >= Len(st.points) THEN Searched(acc, segments)
  ELSE LET p_trial == closest_segment_point(p, st.points[j + 1],
                                            st.points[j + 2])
           d2      == norm_square(VSub(p_trial, p))
       IN  find_segment_last(st, p, j + 1,
             IF QLeq(d2, acc.d2_min) \/ QLess(acc.d2_min, Zero)
             THEN [d2_min |-> d2, p_found |-> p_trial, j_found |-> j]
             ELSE acc,
             Append(segments, <<st.points[j + 1], st.points[j + 2]>>))

\* the loop over the n_points - 1 segments; d2 is compared through its square
RECURSIVE find_segment(_, _, _, _, _)
find_segment(st, p, j, acc, segments) ==
  IF j + 1 >= Len(st.points) THEN Searched(acc, segments)
  ELSE find_segment(st, p, j + 1,
         try_point(closest_segment_point(p, st.points[j + 1],
                                         st.points[j + 2]), p, j, acc),
         Append(segments, <<st.points[j + 1], st.points[j + 2]>>))

\* the value of one marked target
interpolated2d(st, source_field, f, oob) ==
  LET t2 == segment_barycentric(f.p_found, Point2dAt(st, f.j_found, oob.pt),
                                Point2dAt(st, f.j_found + 1, oob.pt))
  IN  QAdd(QAdd(Zero, QMul(t2[1], ValueAt(source_field, f.j_found, oob.val))),
           QMul(t2[2], ValueAt(source_field, f.j_found + 1, oob.val)))

\* the values of the targets whose searches found the segments found
interpolate2d_found(st, source_field, markers, oob, found) ==
  [err |-> "",
   values |-> [i \in 1..Len(found) |->
                 IF markers[i]
                 THEN interpolated2d(st, source_field, found[i], oob)
                 ELSE Zero],
   found |-> found,
   ub |-> \E i \in 1..Len(found) :
            /\ markers[i]
            /\ \/ found[i].j_found + 2 > Len(st.points)
               \/ found[i].j_found + 2 > Len(source_field)]

(***************************************************************************)
(* SurfaceInterpolator2D::interpolate: [err, values, found, ub].  oob =     *)
(* [pt, val] is what reads past the end of points and of the source field  *)
(* find.                                                                   *)
(***************************************************************************)
interpolate2d(st, field_name, target_points, markers, before, oob) ==
  IF ~Has(st.fields, field_name)
  THEN [err |-> "field_not_found", values |-> before, found |-> <<>>,
        ub |-> FALSE]
  ELSE interpolate2d_found(st, st.fields[field_name], markers, oob,
         [i \in 1..Len(target_points) |->
            IF markers[i]
            THEN find_segment(st, target_points[i], 0, NotFound2d, <<>>)
            ELSE Searched(NotFound2d, <<>>)])

\* three points on a polyline with field q, and a single point
TxtLine ==
  << <<Kw("r"), Kw("z"), Kw("q")>>,
     Nums(<<0, 0, 10>>), <<>>, Nums(<<2, 0, 20>>), Nums(<<2, 2, 30>>) >>

TxtOne == << <<Kw("r"), Kw("z"), Kw("q")>>, Nums(<<1, 1, 10>>) >>

\* three points on the r axis, q = 0, 10, 20
TxtPolyline ==
  << <<Kw("r"), Kw("z"), Kw("q")>>,
     Nums(<<0, 0, 0>>), Nums(<<1, 0, 10>>), Nums(<<2, 0, 20>>) >>

\* two fields; the second row has one value, the third none
TxtShortRow ==
  << <<Kw("r"), Kw("z"), Kw("q"), Kw("s")>>,
     Nums(<<0, 0, 1, 2>>), Nums(<<1, 0, 5>>), Nums(<<2, 0>>) >>

\* a header and no data row
TxtHeaderOnly == << <<Kw("r"), Kw("z"), Kw("q")>> >>

\* the first row has a column the header does not name
TxtLongRow ==
  << <<Kw("r"), Kw("z"), Kw("q")>>,
     Nums(<<0, 0, 1, 99>>), Nums(<<1, 0, 2>>) >>

\* the first two rows are the same point
TxtRepeated ==
  << <<Kw("r"), Kw("z"), Kw("q")>>,
     Nums(<<3, 3, 10>>), Nums(<<3, 3, 20>>), Nums(<<0, 0, 30>>) >>

\* ------------------------------------------------------------- the files on disk

VtkFiles ==
  [ unit |-> VtkUnit, nearfar |-> VtkNearFar, overlap |-> VtkOverlap,
    degenerate |-> VtkDegenerate, far |-> VtkFar, nocells |-> VtkNoCells,
    quad |-> VtkQuad, badindex |-> VtkBadIndex, isolated |-> VtkIsolated,
    segmentcell |-> VtkSegmentCell, shortfield |-> VtkShortField,
    longfield |-> VtkLongField, truncated |-> VtkTruncated,
    boundary |-> VtkBoundary ]

VtuFiles == [ square |-> VtuSquare, short |-> VtuShort ]

TxtFiles ==
  [ line |-> TxtLine, one |-> TxtOne, polyline |-> TxtPolyline,
    shortrow |-> TxtShortRow, longrow |-> TxtLongRow,
    headeronly |-> TxtHeaderOnly, repeated |-> TxtRepeated ]

\* a path no file is at
Missing == "missing"

\* ------------------------------------------------------------- undefined reads

\* what a read past the end of a vector of doubles may find
GarbageValues == {Zero, I(-7)}

\* what a read past the end of points may find
GarbagePoints == {Origin3, P3(I(5), I(5), I(5))}

GarbagePoints2d == {Origin2, P2(I(5), I(5))}

\* what a read past the end of triangle_cache may find: clear() keeps the
\* storage, so the triangle of an earlier surface, or any other bytes
StaleTriangles ==
  {reinit(Origin3, P3(One, Zero, Zero), P3(Zero, One, Zero)),
   reinit(P3(I(5), I(5), I(5)), P3(I(5), I(5), I(5)), P3(I(5), I(5), I(5)))}

\* ------------------------------------------------------------- loading

\* preprocess() at the end of a load: [st, err, ub]
preprocess(st) ==
  IF \A i \in 1..Len(st.triangles) : TriangleValid(st, st.triangles[i])
  THEN {[st |-> preprocess_reading(st, Origin3), err |-> "", ub |-> FALSE]}
  ELSE {[st |-> preprocess_reading(st, g), err |-> "", ub |-> TRUE] :
          g \in GarbagePoints}
       \cup {[st |-> st, err |-> "crash", ub |-> TRUE]}

\* a read_vtk that leaves a point in the store when the file cannot be
\* opened: not what the code does
\* read_vtk of a file with the given tokens; a count that was never stored
\* may have any value, and the read may crash on it
read_vtk_tokens(toks) ==
  LET r == read_vtk_parse(toks)
  IN  IF r.ub
      THEN {[st |-> r.st, err |-> e, ub |-> TRUE] : e \in {r.err, "crash"}}
      ELSE IF r.err # "" THEN {[st |-> r.st, err |-> r.err, ub |-> FALSE]}
      ELSE preprocess(r.st)

\* a read_vtk that leaves a point in the store when the file cannot be
\* opened: not what the code does
read_vtk_unopened(file_name) ==
  IF file_name \notin DOMAIN VtkFiles
  THEN {[st |-> [clear EXCEPT !.points = <<Origin3>>], err |-> "",
         ub |-> FALSE]}
  ELSE read_vtk_tokens(VtkFiles[file_name])

\* read_vtk(file_name): a file that cannot be opened leaves the cleared store
read_vtk(file_name) ==
  IF file_name \notin DOMAIN VtkFiles
  THEN {[st |-> clear, err |-> "", ub |-> FALSE]}
  ELSE read_vtk_tokens(VtkFiles[file_name])

\* read_vtu of a file with the given tokens
read_vtu_tokens(toks) ==
  LET r == read_vtu_parse(toks)
  IN  IF r.err # "" THEN {[st |-> r.st, err |-> r.err, ub |-> FALSE]}
      ELSE preprocess(r.st)

read_vtu(file_name) ==
  IF file_name \notin DOMAIN VtuFiles
  THEN {[st |-> clear, err |-> "", ub |-> FALSE]}
  ELSE read_vtu_tokens(VtuFiles[file_name])

\* read_txt(file_name): [st, ub]
read_txt(file_name) ==
  IF file_name \notin DOMAIN TxtFiles
  THEN {[st |-> clear2d, ub |-> FALSE]}
  ELSE LET r == read_txt_parse(TxtFiles[file_name], Zero)
       IN  IF ~r.ub THEN {r}
           ELSE {read_txt_parse(TxtFiles[file_name], g) : g \in GarbageValues}

\* the outcomes of the loads, computed once per file
VtkNames == DOMAIN VtkFiles \cup {Missing}

VtuNames == DOMAIN VtuFiles \cup {Missing}

TxtNames == DOMAIN TxtFiles \cup {Missing}

ReadVtkOutcomes == [f \in VtkNames |-> read_vtk(f)]

ReadUniformOutcomes ==
  [t \in DOMAIN Topologies |->
     [v \in UniformValues |-> read_vtk_tokens(VtkUniform(Topologies[t], v))]]

ReadVtuOutcomes == [f \in VtuNames |-> read_vtu(f)]

ReadTxtOutcomes == [f \in TxtNames |-> read_txt(f)]

\* ------------------------------------------------------------- state

MaxConverts == 2

MaxTargets == 2

VARIABLES
  points,              \* SurfaceInterpolator3D::points
  triangles,           \* SurfaceInterpolator3D::triangles
  cell_fields,         \* SurfaceInterpolator3D::cell_fields
  point_fields,        \* SurfaceInterpolator3D::point_fields
  cell_vector_fields,  \* SurfaceInterpolator3D::cell_vector_fields
  triangle_cache,      \* SurfaceInterpolator3D::triangle_cache
  points2d,            \* SurfaceInterpolator2D::points
  fields2d,            \* SurfaceInterpolator2D::fields
  query,               \* the arguments the caller passes to interpolate
  call,                \* the last call made: its arguments and how it ended
  load_status,         \* how the last load of the 3D store ended
  converts             \* the number of convert calls since the last load

vars ==
  <<points, triangles, cell_fields, point_fields, cell_vector_fields,
    triangle_cache, points2d, fields2d, query, call, load_status, converts>>

\* the SurfaceInterpolator3D object and the SurfaceInterpolator2D object
Store ==
  [ points             |-> points,
    triangles          |-> triangles,
    cell_fields        |-> cell_fields,
    point_fields       |-> point_fields,
    cell_vector_fields |-> cell_vector_fields,
    triangle_cache     |-> triangle_cache ]

Store2d == [points |-> points2d, fields |-> fields2d]

SetStore(st) ==
  /\ points' = st.points
  /\ triangles' = st.triangles
  /\ cell_fields' = st.cell_fields
  /\ point_fields' = st.point_fields
  /\ cell_vector_fields' = st.cell_vector_fields
  /\ triangle_cache' = st.triangle_cache

SameStore ==
  UNCHANGED <<points, triangles, cell_fields, point_fields,
              cell_vector_fields, triangle_cache>>

SameStore2d == UNCHANGED <<points2d, fields2d>>

NoCall ==
  [ op |-> "none", file |-> "", err |-> "", ub |-> FALSE,
    source_type |-> "", source_name |-> "",
    target_type |-> "", target_name |-> "",
    values |-> <<>>, found |-> <<>>, point |-> Origin3, written |-> <<>>,
    copy |-> clear ]

\* an out-of-bounds access may end the process: nothing runs afterwards
Alive == call.err # "crash"

FieldTypes == {"CellField", "PointField"}

\* the target points callers pass, in 3D and in 2D
Pool3 ==
  <<Origin3, P3(One, Zero, Zero), P3(Q(1, 4), Q(1, 4), Zero),
    P3(Q(1, 3), Q(1, 3), Zero)>>

Pool2d ==
  <<P2(One, Zero), P2(I(2), One), P2(One, One), P2(I(3), I(3))>>

\* target_values as the caller passes it
Befores == {<<>>, <<I(8), I(8), I(8)>>}

Window(pool, a, n) == [i \in 1..n |-> pool[a + i - 1]]

Windows ==
  {<<1, 0>>} \cup {w \in (1..Len(Pool3)) \X (1..MaxTargets) :
                     w[1] + w[2] - 1 <= Len(Pool3)}

\* the calls of interpolate a caller makes: a window of the pool as targets, a
\* marker for each of them, either field table and a present or an absent name
Queries ==
  UNION { { [ field_type |-> ft, field_name |-> name,
              target_points |-> Window(Pool3, w[1], w[2]),
              target_points_2d |-> Window(Pool2d, w[1], w[2]),
              markers |-> m, before |-> b ] :
            ft \in FieldTypes, name \in {"q", "zz"}, b \in Befores,
            m \in [1..w[2] -> BOOLEAN] } : w \in Windows }

\* the one query of the store's life cycle: the centroid of the unit triangle
CentroidQuery ==
  [ field_type |-> "PointField", field_name |-> "q",
    target_points |-> Window(Pool3, 4, 1),
    target_points_2d |-> Window(Pool2d, 4, 1),
    markers |-> <<TRUE>>, before |-> <<>> ]

\* the targets of the queries on the polylines: on a segment, at the same
\* distance from two segments, and past the last point
PoolLine == <<P2(Q(3, 2), Zero), P2(One, One), P2(I(3), I(3))>>

LineQueries ==
  UNION { { [ field_type |-> "PointField", field_name |-> name,
              target_points |-> Window(Pool3, w[1], w[2]),
              target_points_2d |-> Window(PoolLine, w[1], w[2]),
              markers |-> m, before |-> <<>> ] :
            name \in {"q", "s"}, m \in [1..w[2] -> BOOLEAN] } :
          w \in {<<1, 1>>, <<1, 2>>, <<2, 2>>} }

\* the targets of the queries on the search: at exactly 3 times the longest
\* side from a center, on an edge two triangles share, inside a triangle
PoolSearch ==
  <<P3(I(3), I(4), I(45)), P3(One, Zero, Zero), P3(Q(1, 4), Q(1, 4), Zero)>>

SearchQueries ==
  UNION { { [ field_type |-> ft, field_name |-> "q",
              target_points |-> Window(PoolSearch, w[1], w[2]),
              target_points_2d |-> Window(Pool2d, w[1], w[2]),
              markers |-> m, before |-> <<>> ] :
            ft \in FieldTypes, m \in [1..w[2] -> BOOLEAN] } :
          w \in {<<1, 1>>, <<2, 1>>, <<3, 1>>, <<1, 2>>, <<2, 2>>} }

\* the triangles and the points the two closest-point functions are called
\* with: a right triangle, a tilted one and an obtuse one, and a grid of
\* points in and above their planes
GeometryTriangles ==
  { <<Origin3, P3(One, Zero, Zero), P3(Zero, One, Zero)>>,
    <<P3(Zero, I(2), Zero), P3(I(2), I(2), Zero), P3(Zero, I(3), I(2))>>,
    <<Origin3, P3(I(4), Zero, Zero), P3(I(-1), One, Zero)>> }

GeometryCoordinates == {I(-1), Zero, Q(1, 3), One, I(2)}

GeometryPoints ==
  {P3(x, y, z) : x \in GeometryCoordinates, y \in GeometryCoordinates,
                 z \in {Zero, One}}

GeometryCalls == {[tri |-> t, p |-> p] : t \in GeometryTriangles,
                                        p \in GeometryPoints}

\* segments of the x axis between the doubles nearest to 0.1, 0.3, 0.7, 0.9
\* and 1.1, and a point at or beyond one of their ends: <<p, a, b>>
AxisAbscissas == {Tenth, ThreeTenths, SevenTenths, NineTenths, ElevenTenths}

AxisPoint(x) == P3(x, Zero, Zero)

AxisCalls ==
  { <<AxisPoint(x), AxisPoint(a), AxisPoint(b)>> :
      x \in {Binary64Zero, AsBinary64(I(2))},
      a \in {ThreeTenths, SevenTenths},
      b \in {NineTenths, ElevenTenths} }
  \cup {<<AxisPoint(b), AxisPoint(Tenth), AxisPoint(b)>> :
          b \in AxisAbscissas \ {Tenth}}

\* ------------------------------------------------------------- StressSolver

(***************************************************************************)
(* StressSolver<3>::calculate_stress.  The mesh is the sequence of the     *)
(* local_dof_indices of its cells for the temperature element, and         *)
(* contribution[c][k][i] is stress_cell[k][i] on cell c: the stress at the *)
(* quadrature points projected on the local degrees of freedom.  The       *)
(* square root of stress_von_Mises is carried by its square.               *)
(***************************************************************************)
n_components == 2 * 3

\* dh_temp.n_dofs(): the degrees of freedom are numbered from 0
n_dofs(cells) ==
  Cardinality({cells[c][i] : c \in DOMAIN cells, i \in DOMAIN cells[1]})

\* the loop over the cells: count and the sums in stress
RECURSIVE stress_cells_loop(_, _, _, _, _)
stress_cells_loop(cells, contribution, c, i, acc) ==
  IF c > Len(cells) THEN acc
  ELSE IF i > Len(cells[c])
  THEN stress_cells_loop(cells, contribution, c + 1, 1, acc)
  ELSE LET dof == cells[c][i] + 1
       IN  stress_cells_loop(cells, contribution, c, i + 1,
             [count  |-> [acc.count EXCEPT ![dof] = @ + 1],
              stress |-> [k \in 1..n_components |->
                            [acc.stress[k] EXCEPT
                               ![dof] = QAdd(@, contribution[c][k][i])]]])

\* the loop that divides the sums by count, over the bound upper for i; it
\* throws at the first count that is 0 and leaves what it has divided
RECURSIVE stress_average_loop(_, _, _, _, _)
stress_average_loop(count, stress, upper, k, i) ==
  IF k > n_components THEN [err |-> "", stress |-> stress]
  ELSE IF i > upper THEN stress_average_loop(count, stress, upper, k + 1, 1)
  ELSE IF ~(count[i] > 0) THEN [err |-> "count", stress |-> stress]
  ELSE stress_average_loop(count,
         [stress EXCEPT ![k][i] = QDiv(@, I(count[i]))], upper, k, i + 1)

\* calculate_stress: [err, count, stress, stress_hydrostatic,
\* stress_von_Mises2]
calculate_stress(cells, contribution) ==
  LET n_dofs_temp        == n_dofs(cells)
      dofs_per_cell_temp == Len(cells[1])
      summed == stress_cells_loop(cells, contribution, 1, 1,
                  [count  |-> [i \in 1..n_dofs_temp |-> 0],
                   stress |-> [k \in 1..n_components |->
                                 [i \in 1..n_dofs_temp |-> Zero]]])
      averaged == stress_average_loop(summed.count, summed.stress,
                                      dofs_per_cell_temp, 1, 1)
      st == averaged.stress
  IN  [err |-> averaged.err, count |-> summed.count, stress |-> st,
       stress_hydrostatic |->
         IF averaged.err # "" THEN [i \in 1..n_dofs_temp |-> Zero]
         ELSE [i \in 1..n_dofs_temp |->
                 QDiv(QAdd(QAdd(st[1][i], st[2][i]), st[3][i]), I(3))],
       stress_von_Mises2 |->
         IF averaged.err # "" THEN [i \in 1..n_dofs_temp |-> Zero]
         ELSE [i \in 1..n_dofs_temp |->
                 QDiv(QAdd(QAdd(QAdd(sqr(QSub(st[1][i], st[2][i])),
                                     sqr(QSub(st[2][i], st[3][i]))),
                                sqr(QSub(st[3][i], st[1][i]))),
                           QMul(I(6), QAdd(QAdd(sqr(st[4][i]), sqr(st[5][i])),
                                           sqr(st[6][i])))),
                      I(2))]]

\* one, two and three hexahedra in a row with the 8 degrees of freedom of
\* FE_Q(1) on each, numbered cell by cell
StressMeshes ==
  { << <<0, 1, 2, 3, 4, 5, 6, 7>> >>,
    << <<0, 1, 2, 3, 4, 5, 6, 7>>, <<1, 8, 3, 9, 5, 10, 7, 11>> >>,
    << <<0, 1, 2, 3, 4, 5, 6, 7>>, <<1, 8, 3, 9, 5, 10, 7, 11>>,
       <<8, 12, 9, 13, 10, 14, 11, 15>> >> }

\* the projected stresses of a cell: a level of the cell from 1 to MaxLevel,
\* times the component, plus the local index
MaxLevel == 4

StressCell(level) ==
  [k \in 1..n_components |-> [i \in 1..8 |-> I(level * k + i)]]

StressCalls ==
  UNION { { [cells |-> m,
             contribution |-> [c \in 1..Len(m) |-> StressCell(level[c])]] :
              level \in [1..Len(m) -> 1..MaxLevel] } : m \in StressMeshes }

\* both objects as constructed: every container empty
Constructed ==
  /\ points = <<>>
  /\ triangles = <<>>
  /\ cell_fields = EmptyMap
  /\ point_fields = EmptyMap
  /\ cell_vector_fields = EmptyMap
  /\ triangle_cache = <<>>
  /\ points2d = <<>>
  /\ fields2d = EmptyMap
  /\ call = NoCall
  /\ load_status = "none"
  /\ converts = 0

Init == Constructed /\ query = CentroidQuery

InitQ == Constructed /\ query \in Queries

InitL == Constructed /\ query \in LineQueries

InitS == Constructed /\ query \in SearchQueries

InitG == Constructed /\ query \in GeometryCalls

InitT == Constructed /\ query \in StressCalls

\* ------------------------------------------------------------- operations

\* a load that clears the points, the triangles and the cache but keeps the
\* fields the file does not name: not what the code does
load_keeping(st, loaded) ==
  [loaded EXCEPT
     !.cell_fields = [n \in DOMAIN st.cell_fields \cup DOMAIN @ |->
                        IF n \in DOMAIN @ THEN @[n] ELSE st.cell_fields[n]],
     !.point_fields = [n \in DOMAIN st.point_fields \cup DOMAIN @ |->
                         IF n \in DOMAIN @ THEN @[n] ELSE st.point_fields[n]]]

\* the members after a load by an object that held st: clear() empties
\* every member before the file is opened, so they are what the file gives
\* an empty object
load_cleared(st, loaded) == loaded

Loaded(op, file_name, o) ==
  /\ SetStore(load_cleared(Store, o.st))
  /\ call' = [NoCall EXCEPT !.op = op, !.file = file_name, !.err = o.err,
                            !.ub = o.ub]
  /\ load_status' = IF o.ub THEN "undefined"
                     ELSE IF o.err = "" THEN "ok" ELSE o.err
  /\ converts' = 0
  /\ UNCHANGED <<points2d, fields2d, query>>

ReadVtk(file_name) ==
  /\ Alive
  /\ \E o \in ReadVtkOutcomes[file_name] : Loaded("read_vtk", file_name, o)

\* read_vtk of the file of surface t with the uniform cell field v
ReadVtkUniform(t, v) ==
  /\ Alive
  /\ \E o \in ReadUniformOutcomes[t][v] : Loaded("read_vtk", t, o)

ReadVtu(file_name) ==
  /\ Alive
  /\ \E o \in ReadVtuOutcomes[file_name] : Loaded("read_vtu", file_name, o)

\* write_vtu(file_name): the store is const; the file holds the tokens written
WriteVtu ==
  /\ Alive
  /\ call' = [NoCall EXCEPT !.op = "write_vtu", !.file = "written",
                            !.written = write_vtu(Store)]
  /\ SameStore
  /\ UNCHANGED <<points2d, fields2d, query, load_status, converts>>

\* read_vtu of the file write_vtu has just written, by a second
\* SurfaceInterpolator3D that lives for this call: call.copy is what it holds
ReadWritten ==
  /\ Alive
  /\ call.op = "write_vtu"
  /\ \E o \in read_vtu_tokens(call.written) :
       call' = [NoCall EXCEPT !.op = "read_vtu", !.file = "written",
                              !.err = o.err, !.ub = o.ub, !.copy = o.st]
  /\ SameStore
  /\ UNCHANGED <<points2d, fields2d, query, load_status, converts>>

ConvertOutcomes(source_type, source_name, target_type, target_name) ==
  LET r == convert(Store, source_type, source_name, target_type, target_name,
                   Zero)
  IN  IF ~r.ub THEN {r}
      ELSE {convert(Store, source_type, source_name, target_type, target_name,
                    g) : g \in GarbageValues}
           \cup {[st |-> Store, err |-> "crash", ub |-> TRUE]}

Convert(source_type, source_name, target_type, target_name) ==
  /\ Alive
  /\ converts < MaxConverts
  /\ \E o \in ConvertOutcomes(source_type, source_name, target_type,
                              target_name) :
       /\ SetStore(o.st)
       /\ call' = [NoCall EXCEPT !.op = "convert", !.err = o.err, !.ub = o.ub,
                                 !.source_type = source_type,
                                 !.source_name = source_name,
                                 !.target_type = target_type,
                                 !.target_name = target_name]
  /\ converts' = converts + 1
  /\ UNCHANGED <<points2d, fields2d, query, load_status>>

\* the outcomes of the call whose run r0 read nothing undefined, or else
\* one run for each thing the undefined reads may find, and a crash
Interpolate3DUndefined(r0) ==
  IF ~r0.ub THEN {r0}
  ELSE {interpolate(Store, query.field_type, query.field_name,
                    query.target_points, query.markers, query.before,
                    [tr |-> t, val |-> g]) :
          t \in StaleTriangles, g \in GarbageValues}
       \cup {[r0 EXCEPT !.err = "crash", !.values = query.before]}

Interpolate3DOutcomes ==
  Interpolate3DUndefined(
    interpolate(Store, query.field_type, query.field_name,
                query.target_points, query.markers, query.before,
                [tr |-> CHOOSE t \in StaleTriangles : TRUE, val |-> Zero]))

Interpolate3D ==
  /\ Alive
  /\ \E o \in Interpolate3DOutcomes :
       call' = [NoCall EXCEPT !.op = "interpolate", !.err = o.err,
                              !.ub = o.ub, !.values = o.values,
                              !.found = o.found, !.point = o.point]
  /\ SetStore(field_found(Store, query.field_type, query.field_name))
  /\ UNCHANGED <<points2d, fields2d, query, load_status, converts>>

ReadTxt(file_name) ==
  /\ Alive
  /\ \E o \in ReadTxtOutcomes[file_name] :
       /\ points2d' = o.st.points
       /\ fields2d' = o.st.fields
       /\ call' = [NoCall EXCEPT !.op = "read_txt", !.file = file_name,
                                 !.ub = o.ub]
  /\ SameStore
  /\ UNCHANGED <<query, load_status, converts>>

Interpolate2DUndefined(r0) ==
  IF ~r0.ub THEN {r0}
  ELSE {interpolate2d(Store2d, query.field_name, query.target_points_2d,
                      query.markers, query.before, [pt |-> p, val |-> g]) :
          p \in GarbagePoints2d, g \in GarbageValues}
       \cup {[r0 EXCEPT !.err = "crash", !.values = query.before]}

Interpolate2DOutcomes ==
  Interpolate2DUndefined(
    interpolate2d(Store2d, query.field_name, query.target_points_2d,
                  query.markers, query.before,
                  [pt |-> Origin2, val |-> Zero]))

Interpolate2D ==
  /\ Alive
  /\ \E o \in Interpolate2DOutcomes :
       call' = [NoCall EXCEPT !.op = "interpolate2d", !.err = o.err,
                              !.ub = o.ub, !.values = o.values,
                              !.found = o.found]
  /\ SameStore
  /\ UNCHANGED <<points2d, fields2d, query, load_status, converts>>

\* triangle.closest_triangle_point(p) of the Triangle of query.tri
ClosestTrianglePoint ==
  /\ call' = [NoCall EXCEPT
                !.op = "closest_triangle_point",
                !.point = closest_triangle_point(
                            reinit(query.tri[1], query.tri[2], query.tri[3]),
                            query.p)]
  /\ SameStore /\ SameStore2d
  /\ UNCHANGED <<query, load_status, converts>>

\* closest_segment_point(p, a, b) with a, b the ends of edge k of query.tri;
\* call.found holds the arguments p, a and b
ClosestSegmentPoint(k) ==
  LET a == query.tri[k]
      b == query.tri[(k % 3) + 1]
  IN  /\ call' = [NoCall EXCEPT !.op = "closest_segment_point",
                                !.found = <<query.p, a, b>>,
                                !.point = closest_segment_point(query.p, a, b)]
      /\ SameStore /\ SameStore2d
      /\ UNCHANGED <<query, load_status, converts>>

\* closest_segment_point(p, a, b) for points of the x axis given in decimals
ClosestSegmentPointBinary64(p, a, b) ==
  /\ call' = [NoCall EXCEPT
                !.op = "closest_segment_point",
                !.found = <<p, a, b>>,
                !.point = closest_segment_point_binary64(p, a, b)]
  /\ SameStore /\ SameStore2d
  /\ UNCHANGED <<query, load_status, converts>>

\* calculate_stress on the mesh and the projected stresses of query; call
\* holds stress in values, count in written, and the two derived vectors in
\* found
CalculateStress ==
  /\ call.op = "none"
  /\ LET r == calculate_stress(query.cells, query.contribution)
     IN  call' = [NoCall EXCEPT
                    !.op = "calculate_stress", !.err = r.err,
                    !.values = r.stress, !.written = r.count,
                    !.found = <<r.stress_hydrostatic, r.stress_von_Mises2>>]
  /\ SameStore /\ SameStore2d
  /\ UNCHANGED <<query, load_status, converts>>

\* ------------------------------------------------------------- specifications

\* the calls of convert a caller makes: both directions with a present source
\* under the default and a new target name and with an absent source, and the
\* two unsupported combinations
ConvertCalls ==
  { <<d[1], n[1], d[2], n[2]>> :
      d \in {<<"CellField", "PointField">>, <<"PointField", "CellField">>},
      n \in {<<"q", "">>, <<"q", "r">>, <<"zz", "">>} }
  \cup {<<ft, "q", ft, "">> : ft \in FieldTypes}

\* the life of one SurfaceInterpolator3D: loads, conversions, a file written
\* and read back, a query
Next ==
  \/ \E f \in {"unit", "nocells", "quad", "badindex", "isolated", Missing} :
        ReadVtk(f)
  \/ \E f \in VtuNames : ReadVtu(f)
  \/ WriteVtu
  \/ ReadWritten
  \/ \E c \in ConvertCalls : Convert(c[1], c[2], c[3], c[4])
  \/ Interpolate3D

Spec == Init /\ [][Next]_vars

\* the queries: every call of interpolate on every surface, in 3D and in 2D
NextQ ==
  \/ \E f \in {"unit", "nearfar", "overlap", "degenerate", "far", "nocells",
               "quad", Missing} : ReadVtk(f)
  \/ \E f \in {"square", Missing} : ReadVtu(f)
  \/ \E f \in {"line", "one", Missing} : ReadTxt(f)
  \/ Interpolate3D
  \/ Interpolate2D

SpecQ == InitQ /\ [][NextQ]_vars

\* a uniform cell field taken to the points and back to the triangles
NextU ==
  \/ \E t \in DOMAIN Topologies, v \in UniformValues : ReadVtkUniform(t, v)
  \/ Convert("CellField", "q", "PointField", "u")
  \/ Convert("PointField", "u", "CellField", "w")

SpecU == Init /\ [][NextU]_vars

\* the loads of every file, well-formed or not, and the queries on polylines
NextL ==
  \/ \E f \in VtkNames : ReadVtk(f)
  \/ \E f \in VtuNames : ReadVtu(f)
  \/ \E f \in TxtNames : ReadTxt(f)
  \/ Interpolate2D

SpecL == InitL /\ [][NextL]_vars

\* the loads of either object after earlier loads and converts
NextR ==
  \/ \E f \in {"unit", "nocells", "isolated", "shortfield", Missing} :
        ReadVtk(f)
  \/ \E f \in {"square", Missing} : ReadVtu(f)
  \/ \E f \in {"line", "shortrow", Missing} : ReadTxt(f)
  \/ Convert("CellField", "q", "PointField", "")
  \/ Convert("PointField", "q", "CellField", "r")

SpecR == Init /\ [][NextR]_vars

\* the search for the triangle of a target: triangles skipped, at the limit
\* of being skipped, equally near, and all skipped
NextS ==
  \/ \E f \in {"unit", "nearfar", "overlap", "far", "boundary"} : ReadVtk(f)
  \/ Interpolate3D

SpecS == InitS /\ [][NextS]_vars

\* the closest-point functions applied to their arguments
NextG ==
  \/ ClosestTrianglePoint
  \/ \E k \in 1..3 : ClosestSegmentPoint(k)
  \/ \E c \in AxisCalls : ClosestSegmentPointBinary64(c[1], c[2], c[3])

SpecG == InitG /\ [][NextG]_vars

\* the stresses of a StressSolver calculated once
NextT == CalculateStress

SpecT == InitT /\ [][NextT]_vars

\* ------------------------------------------------------------- properties of interpolate

\* interpolate of the 3D store has returned normally
Returned3D == call.op = "interpolate" /\ call.err = ""

\* the cache holds one triangle per index triple, as after a completed load
InLockstep == Len(triangle_cache) = Len(triangles)

Marked == {i \in 1..Len(query.markers) : query.markers[i]}

Target(i) == query.target_points[i]

\* the triangle selected for target i, as an index into triangle_cache
Selected(i) == call.found[i].j_found + 1

\* the squared distance from p to the closest point of triangle j
Distance2(j, p) ==
  norm_square(VSub(closest_triangle_point(triangle_cache[j], p), p))

NotNearer(j, i) ==
  ~QLess(Distance2(j, Target(i)), Distance2(Selected(i), Target(i)))

\* the triangles the first loop examines for p, or all of them when it
\* examines none
Candidates(p) ==
  LET all  == 1..Len(triangles)
      near == {j \in all : ~too_far(triangle_cache[j], p)}
  IN  IF near # {} THEN near ELSE all

\* C1 as stated: on a surface with at least one triangle, no triangle of the
\* surface is strictly nearer to a marked target than the triangle selected
\* for it
C1_NearestAmongAll ==
  (Returned3D /\ InLockstep /\ Len(triangles) >= 1)
    => \A i \in Marked : \A j \in 1..Len(triangles) : NotNearer(j, i)

\* C1 amended: the selected triangle is nearest among the triangles whose
\* centre lies within 3 longest sides of the target, and nearest among all
\* triangles only when no centre does
C1_NearestAmongCandidates ==
  (Returned3D /\ InLockstep /\ Len(triangles) >= 1)
    => \A i \in Marked :
         /\ Selected(i) \in Candidates(Target(i))
         /\ \A j \in Candidates(Target(i)) : NotNearer(j, i)

\* a marked target for which a skipped triangle is strictly nearer than the
\* selected one
C1_Witness ==
  /\ Returned3D /\ InLockstep
  /\ \E i \in Marked : \E j \in 1..Len(triangles) :
       /\ too_far(triangle_cache[j], Target(i))
       /\ ~NotNearer(j, i)

\* the point field the query names, and the vertices that belong to a triangle
QueriedPointField == point_fields[query.field_name]

OnTriangle(v) ==
  \E j \in 1..Len(triangles) : \E k \in 1..3 : triangles[j][k] = v

Returned3DPoint ==
  /\ Returned3D /\ InLockstep /\ ~call.ub
  /\ query.field_type = "PointField"

NonDegenerate(tr) == tr.m_cross2 # Zero

C7_InterpolationFailed ==
  (call.op = "interpolate"
   /\ FieldExists(Store, query.field_type, query.field_name))
    => /\ (call.err = "interpolation_failed")
            <=> (Len(triangles) = 0 /\ Marked # {})
       /\ call.err = "interpolation_failed"
            => /\ Marked # {}
               /\ call.point = Target(CHOOSE i \in Marked :
                                        \A k \in Marked : i <= k)

\* the error raised for the second of two targets, the first being unmarked
C7_Witness ==
  /\ call.op = "interpolate"
  /\ call.err = "interpolation_failed"
  /\ Len(query.markers) = 2
  /\ query.markers = <<FALSE, TRUE>>
  /\ call.point = Target(2)
  /\ call.point # Target(1)

\* C8: after interpolate of either store returns, the output has one entry
\* per target and every entry of an unmarked target is zero, whatever the
\* output held before
C8_OutputShape ==
  (call.op \in {"interpolate", "interpolate2d"} /\ call.err = "")
    => /\ Len(call.values) = Len(query.target_points)
       /\ \A i \in 1..Len(query.markers) :
            ~query.markers[i] => call.values[i] = Zero

\* an output of three entries replaced by two, one interpolated and one zero
C8_Witness ==
  /\ Returned3D
  /\ Len(query.before) = 3
  /\ query.markers = <<FALSE, TRUE>>
  /\ call.values[1] = Zero
  /\ call.values[2] # Zero
  /\ call.values[2] # query.before[2]

\* the surface of one unit right triangle with cell value 5 and point values
\* 1, 2, 3
UnitSurface ==
  /\ points = <<Origin3, P3(One, Zero, Zero), P3(Zero, One, Zero)>>
  /\ triangles = <<<<0, 1, 2>>>>
  /\ InLockstep
  /\ Has(cell_fields, "q") /\ cell_fields["q"] = <<I(5)>>
  /\ Has(point_fields, "q") /\ point_fields["q"] = <<I(1), I(2), I(3)>>

\* C9: for a cell field every marked target gets exactly the stored value of
\* its selected triangle; on the unit triangle with cell value 5 the target
\* (1/4, 1/4, 0) gets 5
C9_CellValue ==
  (Returned3D /\ query.field_type = "CellField" /\ ~call.ub)
    => \A i \in Marked :
         /\ call.values[i] = cell_fields[query.field_name][Selected(i)]
         /\ (UnitSurface /\ query.field_name = "q"
             /\ Target(i) = P3(Q(1, 4), Q(1, 4), Zero))
              => call.values[i] = I(5)

\* the unit triangle queried at (1/4, 1/4, 0)
C9_Witness ==
  /\ Returned3D /\ query.field_type = "CellField" /\ query.field_name = "q"
  /\ UnitSurface
  /\ \E i \in Marked : /\ Target(i) = P3(Q(1, 4), Q(1, 4), Zero)
                       /\ call.values[i] = I(5)

\* C10: for a point field every marked target gets the sum of b[k] * f[v[k]]
\* over the three vertices v of its selected triangle, b being the barycentric
\* coordinates on that triangle of the closest point found; at the centroid of
\* a triangle of positive area that is the mean of the three vertex values
C10_PointValue ==
  Returned3DPoint
    => \A i \in Marked :
         LET tr == triangle_cache[Selected(i)]
             v  == triangles[Selected(i)]
             f  == QueriedPointField
             b  == barycentric_coordinates(tr, call.found[i].p_found)
         IN  /\ call.values[i] =
                  QAdd(QAdd(QMul(b[1], f[v[1] + 1]), QMul(b[2], f[v[2] + 1])),
                       QMul(b[3], f[v[3] + 1]))
             /\ (NonDegenerate(tr) /\ Target(i) = center(tr))
                  => call.values[i] =
                       QDiv(QAdd(QAdd(f[v[1] + 1], f[v[2] + 1]), f[v[3] + 1]),
                            I(3))

\* the unit triangle with vertex values 1, 2, 3 queried at its centroid
C10_Witness ==
  /\ Returned3DPoint /\ query.field_name = "q"
  /\ UnitSurface
  /\ \E i \in Marked : /\ Target(i) = P3(Q(1, 3), Q(1, 3), Zero)
                       /\ Target(i) = center(triangle_cache[1])
                       /\ call.values[i] = I(2)

\* C13: a call of interpolate, of either store, with a field name absent
\* from the table asked ends with field-not-found, leaves both stores as they
\* were and leaves target_values as the caller passed it
C13_AbsentFieldFails ==
  [][/\ (call'.op = "interpolate"
         /\ ~FieldExists(Store, query.field_type, query.field_name))
          => /\ call'.err = "field_not_found"
             /\ call'.values = query.before
             /\ SameStore /\ SameStore2d
     /\ (call'.op = "interpolate2d" /\ ~Has(fields2d, query.field_name))
          => /\ call'.err = "field_not_found"
             /\ call'.values = query.before
             /\ SameStore /\ SameStore2d]_vars

\* interpolate was asked for an absent field of a loaded surface, with
\* targets and with values already in target_values
C13_Witness ==
  /\ call.op = "interpolate"
  /\ call.err = "field_not_found"
  /\ triangles # <<>>
  /\ ~FieldExists(Store, query.field_type, query.field_name)
  /\ query.target_points # <<>>
  /\ call.values # <<>>
  /\ Len(call.values) # Len(query.target_points)

\* ------------------------------------------------------------- properties of the store

\* v as it stands in a written file and is read back from it
Printed(v) == scientific(v)

\* every field of table a is in table b with the values as printed
SameFields(a, b) ==
  \A name \in DOMAIN a :
     /\ Has(b, name)
     /\ b[name] = [i \in 1..Len(a[name]) |-> Printed(a[name][i])]

\* C2 as stated: after a successful load and any converts, reading back the
\* file write_vtu wrote ends without error and gives the same point count,
\* the same triangles and the same values of every cell and point field
C2_RoundTrip ==
  (call.op = "read_vtu" /\ call.file = "written" /\ load_status = "ok")
    => /\ call.err = ""
       /\ Len(call.copy.points) = Len(points)
       /\ call.copy.triangles = triangles
       /\ SameFields(cell_fields, call.copy.cell_fields)
       /\ SameFields(point_fields, call.copy.point_fields)

SupportedConvert(c) ==
  /\ c.op = "convert"
  /\ c.source_type # c.target_type

\* C3 as stated: convert of a source name absent from the source table ends
\* with field-not-found and leaves both field tables, the points and the
\* triangles as they were
C3_ConvertAbsentSource ==
  [][(SupportedConvert(call')
      /\ ~FieldExists(Store, call'.source_type, call'.source_name))
       => (call'.err = "field_not_found" /\ SameStore)]_vars

\* C4 as stated: a load that fails part-way through its file leaves the
\* cleared store
C4_FailedLoadClears ==
  (call.op \in {"read_vtk", "read_vtu"} /\ call.file # "written"
   /\ call.err \in {"format_error", "invalid_argument"})
    => Store = clear

\* C5 as stated: in every reachable state each cell field has one value per
\* triangle and each point field one value per point
C5_FieldLengths ==
  /\ \A name \in DOMAIN cell_fields :
        Len(cell_fields[name]) = Len(triangles)
  /\ \A name \in DOMAIN point_fields :
        Len(point_fields[name]) = Len(points)

\* ------------------------------------------------------------- properties of convert

\* convert has returned normally from the direction source_type -> target_type
ConvertReturned(source_type) ==
  /\ call.op = "convert"
  /\ call.err = ""
  /\ call.source_type = source_type

\* the name convert stored the result under
ConvertTarget ==
  IF call.target_name = "" THEN call.source_name ELSE call.target_name

\* every triangle names points of the store
IndicesInRange ==
  \A t \in 1..Len(triangles) : \A k \in 1..3 :
     triangles[t][k] + 1 <= Len(points)

\* the occurrences <<t, k>> of point id (counted from 0) in the triangles
Occurrences(id) ==
  {tk \in (1..Len(triangles)) \X (1..3) : triangles[tk[1]][tk[2]] = id}

\* the mean of the cell values over the occurrences of point id; 0 for none
OccurrenceMean(source_field, id) ==
  IF Occurrences(id) = {} THEN Zero
  ELSE QDiv(SumOf([tk \in Occurrences(id) |-> source_field[tk[1]]],
                  Occurrences(id)),
            I(Cardinality(Occurrences(id))))

\* the mean of the point values at the three indices of triangle t
VertexMean(source_field, t) ==
  QDiv(SumOf([k \in 1..3 |-> source_field[triangles[t][k] + 1]], 1..3), I(3))

\* C11: after convert from a cell field with one value per triangle, every
\* point holds the unweighted mean of the source over the occurrences of the
\* point in the triangles, and 0 when it occurs in none; after convert from a
\* point field with one value per point, every triangle holds the mean of
\* the source at its three indices
C11_UnweightedMeans ==
  /\ (ConvertReturned("CellField") /\ IndicesInRange
       /\ Len(cell_fields[call.source_name]) = Len(triangles))
        => point_fields[ConvertTarget] =
             [i \in 1..Len(points) |->
                OccurrenceMean(cell_fields[call.source_name], i - 1)]
  /\ (ConvertReturned("PointField") /\ IndicesInRange
       /\ Len(point_fields[call.source_name]) = Len(points))
        => cell_fields[ConvertTarget] =
             [t \in 1..Len(triangles) |->
                VertexMean(point_fields[call.source_name], t)]

\* a cell field was converted on a surface where one point occurs in two
\* triangles of different values, twice in one of them, and another point
\* occurs in none
C11_Witness ==
  /\ ConvertReturned("CellField")
  /\ IndicesInRange
  /\ Len(cell_fields[call.source_name]) = Len(triangles)
  /\ \E i \in 1..Len(points) : Occurrences(i - 1) = {}
  /\ \E i \in 1..Len(points) :
       /\ Cardinality(Occurrences(i - 1)) = 3
       /\ \E a, b \in Occurrences(i - 1) :
            /\ a[1] = b[1] /\ a[2] # b[2]
       /\ \E a, b \in Occurrences(i - 1) :
            cell_fields[call.source_name][a[1]]
              # cell_fields[call.source_name][b[1]]

\* the cell field q with one value on every triangle, taken to the point
\* field u by cell_to_point, and u taken back to the cell field w
UniformRoundTrip ==
  /\ ConvertReturned("PointField")
  /\ call.source_name = "u"
  /\ call.target_name = "w"
  /\ ~call.ub
  /\ load_status = "ok"
  /\ Has(cell_fields, "q")
  /\ triangles # <<>>
  /\ \A t \in 1..Len(triangles) : cell_fields["q"][t] = cell_fields["q"][1]

\* C12 as stated: a cell field equal to v on every triangle, converted to
\* the points and back, equals v on every triangle
C12_UniformRoundTrip ==
  UniformRoundTrip
    => \A t \in 1..Len(triangles) : cell_fields["w"][t] = cell_fields["q"][t]

\* ------------------------------------------------------------- properties of the loads

\* the last call was a load of the path no file is at
MissingLoad(op) == call.op = op /\ call.file = Missing

\* C14: after a load of a path that cannot be opened no error is raised and
\* the store of the object is empty: no points, no triangles, no fields of
\* any kind and no cached triangles in 3D, no points and no fields in 2D
C14_UnopenedLeavesEmpty ==
  /\ (MissingLoad("read_vtk") \/ MissingLoad("read_vtu"))
       => (call.err = "" /\ ~call.ub /\ Store = clear)
  /\ MissingLoad("read_txt")
       => (call.err = "" /\ ~call.ub /\ Store2d = clear2d)

\* read_vtk of the missing path has returned while the other object still
\* holds the polyline it loaded
C14_Witness ==
  /\ MissingLoad("read_vtk")
  /\ Store = clear
  /\ points2d # <<>>

\* the files with a cell record that declares 4 vertices, or 2
NonTriangleFiles == {"quad", "segmentcell"}

\* what preprocess() builds: the cached triangles and the fields area,
\* longest_side, center and normal
NothingPreprocessed ==
  /\ triangle_cache = <<>>
  /\ ~Has(cell_fields, "area")
  /\ ~Has(cell_fields, "longest_side")
  /\ ~Has(cell_vector_fields, "center")
  /\ ~Has(cell_vector_fields, "normal")

\* C15: read_vtk of a file in which a cell record declares a vertex count
\* other than 3 ends with a format error, and neither cached triangles nor
\* the fields preprocess() derives exist afterwards
C15_NonTriangleFails ==
  (call.op = "read_vtk" /\ call.file \in NonTriangleFiles)
    => (call.err = "format_error" /\ load_status = "format_error"
        /\ NothingPreprocessed)

\* the record of 4 vertices came second: the triangle before it is stored,
\* and nothing is built from it
C15_Witness ==
  /\ call.op = "read_vtk"
  /\ call.file = "quad"
  /\ call.err = "format_error"
  /\ triangles = <<<<0, 1, 2>>, <<0, 0, 0>>>>
  /\ Len(points) = 3
  /\ NothingPreprocessed

\* the last call loaded a file in which a field array holds fewer or more
\* values than the declared count of points or of cells
MismatchedLoad ==
  \/ call.op = "read_vtk" /\ call.file \in {"shortfield", "longfield"}
  \/ call.op = "read_vtu" /\ call.file = "short"

\* C16 as stated: a load of a file in which some field has a number of
\* values different from the declared count fails with a format error, in
\* read_vtk and in read_vtu
C16_MismatchedFieldFails == MismatchedLoad => call.err = "format_error"

\* C17 as stated: after a load that ended without an error every index of
\* every stored triangle is below the number of points
C17_LoadValidatesIndices ==
  (call.op \in {"read_vtk", "read_vtu"} /\ call.err = "") => IndicesInRange

\* the files in which a data row has fewer or more columns than the header
MismatchedRowFiles == {"shortrow", "longrow"}

\* C18 as stated: read_txt of a file in which a data row has a number of
\* columns different from the header's fails with a format error
C18_MismatchedRowFails ==
  (call.op = "read_txt" /\ call.file \in MismatchedRowFiles)
    => call.err = "format_error"

\* the segments of the stored polyline: segment j joins points j and j + 1
Segments == [j \in 1..(Len(points2d) - 1) |-> <<points2d[j], points2d[j + 1]>>]

\* C19: whatever file read_txt has read, every stored field has as many
\* values as there are points, and the search of interpolate for a marked
\* target goes through the segments of the polyline, one for each pair of
\* consecutive points (none when there are fewer than two points)
C19_FieldsAndSegments ==
  /\ \A name \in DOMAIN fields2d : Len(fields2d[name]) = Len(points2d)
  /\ call.op = "interpolate2d"
       => \A i \in 1..Len(call.found) :
            query.markers[i] => call.found[i].segments = Segments

\* a file with rows of 2, 1 and 0 values for 2 fields was read, and a
\* marked target was searched for in its 2 segments
C19_Witness ==
  /\ call.op = "interpolate2d"
  /\ Len(points2d) = 3
  /\ Has(fields2d, "s") /\ Len(fields2d["s"]) = 3 /\ Len(fields2d["q"]) = 3
  /\ Len(call.found) > 0 /\ query.markers[1]
  /\ Len(call.found[1].segments) = 2

\* ------------------------------------------------------------- properties of the 2D interpolate

\* the point of segment j (counted from 1) closest to p, the square of its
\* distance to p, and its parameter on the segment
SegmentPoint(p, j) == closest_segment_point(p, points2d[j], points2d[j + 1])

SegmentDistance2(p, j) == norm_square(VSub(SegmentPoint(p, j), p))

SegmentT(p, j) == segment_parameter(SegmentPoint(p, j), points2d[j], points2d[j + 1])

\* the segment interpolate selected for target i, counted from 1
Selected2d(i) == call.found[i].j_found + 1

\* a query on a polyline of at least one segment, all of them between two
\* different points, has returned
Interpolated2d ==
  /\ call.op = "interpolate2d"
  /\ call.err = ""
  /\ Len(points2d) >= 2
  /\ \A j \in 1..(Len(points2d) - 1) : points2d[j] # points2d[j + 1]

TheLine == <<P2(Zero, Zero), P2(One, Zero), P2(I(2), Zero)>>

\* C20: for every marked target the selected segment is one whose closest
\* point is nearest to the target, the lowest such segment, and the value
\* returned is (1 - t) f[j] + t f[j + 1] with t the parameter of the closest
\* point on it; on the points (0,0), (1,0), (2,0) with values 0, 10, 20 the
\* value at (1.5, 0) is 15
C20_NearestSegmentBlend ==
  Interpolated2d =>
    \A i \in 1..Len(call.values) :
      query.markers[i] =>
        LET p == query.target_points_2d[i]
            j == Selected2d(i)
            f == fields2d[query.field_name]
            t == SegmentT(p, j)
        IN  /\ j \in 1..(Len(points2d) - 1)
            /\ \A k \in 1..(Len(points2d) - 1) :
                  /\ QLeq(SegmentDistance2(p, j), SegmentDistance2(p, k))
                  /\ k < j => QLess(SegmentDistance2(p, j),
                                    SegmentDistance2(p, k))
            /\ SegmentPoint(p, j)
                 = VAdd(points2d[j],
                        VScale(t, VSub(points2d[j + 1], points2d[j])))
            /\ call.values[i]
                 = QAdd(QMul(QSub(One, t), f[j]), QMul(t, f[j + 1]))
            /\ (points2d = TheLine /\ f = <<Zero, I(10), I(20)>>
                 /\ p = P2(Q(3, 2), Zero))
                  => call.values[i] = I(15)

\* the value at (1.5, 0) on the line is 15, found on the second segment, and
\* the second target (1, 1), equally near to both segments, got the first
C20_Witness ==
  /\ Interpolated2d
  /\ points2d = TheLine
  /\ fields2d["q"] = <<Zero, I(10), I(20)>>
  /\ query.field_name = "q"
  /\ query.markers = <<TRUE, TRUE>>
  /\ query.target_points_2d = <<P2(Q(3, 2), Zero), P2(One, One)>>
  /\ call.values = <<I(15), I(10)>>
  /\ call.found[1].j_found = 1
  /\ call.found[2].j_found = 0
  /\ SegmentDistance2(P2(One, One), 1) = SegmentDistance2(P2(One, One), 2)

\* ------------------------------------------------------------- properties of the queries

\* the call of interpolate recorded in call, made again on the store as it
\* is now, ends in the same way with the same values and the same triangles
Reproducible ==
  LET r == interpolate(Store, query.field_type, query.field_name,
                       query.target_points, query.markers, query.before,
                       [tr |-> CHOOSE t \in StaleTriangles : TRUE,
                        val |-> Zero])
  IN  /\ r.err = call.err
      /\ r.values = call.values
      /\ r.found = call.found

LoadReturned(op, names) ==
  /\ call.op = op
  /\ call.file \in names
  /\ call.err = ""
  /\ ~call.ub

Fresh == "fresh"

\* the vector convert writes when it is told to write under the name Fresh
ConvertResult(source_type, source_name, target_type) ==
  FieldTable(convert(Store, source_type, source_name, target_type, Fresh,
                     Zero).st, target_type)[Fresh]

\* C23: convert called with an empty target name writes its result under
\* the source name in the table of the target type, and called with a
\* target name writes it under that name; no other name appears in that
\* table
C23_TargetName ==
  [][(call'.op = "convert" /\ call'.err = "" /\ ~call'.ub)
       => LET name   == IF call'.target_name = "" THEN call'.source_name
                        ELSE call'.target_name
              before == FieldTable(Store, call'.target_type)
              after  == IF call'.target_type = "CellField"
                        THEN cell_fields' ELSE point_fields'
          IN  /\ DOMAIN after = DOMAIN before \cup {name}
              /\ after[name] = ConvertResult(call'.source_type,
                                             call'.source_name,
                                             call'.target_type)]_vars

\* convert of cell field q with no target name has replaced the loaded point
\* field q of the unit triangle by the cell value at each point
C23_Witness ==
  /\ call.op = "convert"
  /\ call.err = ""
  /\ call.source_type = "CellField" /\ call.source_name = "q"
  /\ call.target_type = "PointField" /\ call.target_name = ""
  /\ cell_fields["q"] = <<I(5)>>
  /\ point_fields["q"] = <<I(5), I(5), I(5)>>
  /\ DOMAIN point_fields = {"q"}

\* ------------------------------------------------------------- properties of the cache

\* C24 as stated: in every reachable state the cache has one entry for each
\* stored triangle, and entry i is the Triangle of the points that triangle
\* i names now
C24_CacheInLockstep ==
  /\ Len(triangle_cache) = Len(triangles)
  /\ \A i \in 1..Len(triangles) :
       TriangleValid(Store, triangles[i])
         => triangle_cache[i] = reinit(points[triangles[i][1] + 1],
                                       points[triangles[i][2] + 1],
                                       points[triangles[i][3] + 1])

\* ------------------------------------------------------------- properties of the search

\* the vertices of stored triangle j (counted from 1)
Vertex(j, k) == points[triangles[j][k] + 1]

\* the center of triangle j and the square of its longest edge, from its
\* vertices
Centroid(j) ==
  VScale(Q(1, 3), VAdd(VAdd(Vertex(j, 1), Vertex(j, 2)), Vertex(j, 3)))

LongestEdge2(j) ==
  LET e == {norm_square(VSub(Vertex(j, a), Vertex(j, b))) :
              a \in 1..3, b \in 1..3}
  IN  CHOOSE x \in e : \A y \in e : QLeq(y, x)

\* the distance from p to the center of triangle j is strictly greater than
\* 3 times its longest edge
Skipped(j, p) ==
  QLess(QMul(I(9), LongestEdge2(j)), norm_square(VSub(p, Centroid(j))))

Survivors(p) == {j \in 1..Len(triangles) : ~Skipped(j, p)}

\* the triangles the search compares: the survivors, or all when there are
\* none
Scanned(p) == IF Survivors(p) # {} THEN Survivors(p) ELSE 1..Len(triangles)

\* interpolate has returned on a surface loaded to the end
Searched3D == Returned3D /\ InLockstep /\ ~call.ub /\ IndicesInRange

\* C25: the triangle selected for a marked target is one of those not
\* skipped by the first pass, or of all triangles when the pass skips every
\* one; none of these is nearer to the target, and those of lower index
\* are farther
C25_SearchAlgorithm ==
  Searched3D =>
    \A i \in Marked :
      /\ Selected(i) \in Scanned(Target(i))
      /\ \A k \in Scanned(Target(i)) :
           /\ QLeq(Distance2(Selected(i), Target(i)), Distance2(k, Target(i)))
           /\ k < Selected(i)
                => QLess(Distance2(Selected(i), Target(i)),
                         Distance2(k, Target(i)))

\* the target (3, 4, 45) is at exactly 3 times the longest side from the
\* center of the second triangle: it is not skipped and, being nearer than
\* the first, it is selected
C25_Witness ==
  /\ Searched3D
  /\ Len(triangles) = 2
  /\ 1 \in Marked
  /\ Target(1) = P3(I(3), I(4), I(45))
  /\ norm_square(VSub(Target(1), Centroid(2))) = QMul(I(9), LongestEdge2(2))
  /\ Survivors(Target(1)) = {1, 2}
  /\ Selected(1) = 2

\* every triangle is skipped and the second pass selects one
SearchFallback ==
  /\ Searched3D
  /\ \E i \in Marked : Survivors(Target(i)) = {} /\ Len(triangles) > 0

\* a triangle is skipped and another is selected
SearchPruned ==
  /\ Searched3D
  /\ \E i \in Marked : Survivors(Target(i)) \notin {{}, 1..Len(triangles)}

\* two triangles are equally near and the first of them is selected
SearchTie ==
  /\ Searched3D
  /\ \E i \in Marked : \E k \in Scanned(Target(i)) :
        /\ k > Selected(i)
        /\ Distance2(k, Target(i)) = Distance2(Selected(i), Target(i))

\* ------------------------------------------------------------- properties of the closest points

\* the cross product of the two edges at the first vertex: a normal of the
\* plane of query.tri
PlaneNormal ==
  cross_product_3d(VSub(query.tri[2], query.tri[1]),
                   VSub(query.tri[3], query.tri[1]))

Parallel(u, v) == cross_product_3d(u, v) = Origin3

\* x is the foot of the perpendicular from p to the plane of query.tri
IsProjection(x, p) ==
  /\ Dot(VSub(x, query.tri[1]), PlaneNormal) = Zero
  /\ Parallel(VSub(p, x), PlaneNormal)

\* b are the barycentric coordinates of x in query.tri
IsBarycentric(b, x) ==
  /\ QAdd(QAdd(b[1], b[2]), b[3]) = One
  /\ VAdd(VAdd(VScale(b[1], query.tri[1]), VScale(b[2], query.tri[2])),
          VScale(b[3], query.tri[3])) = x

\* the closest point of edge k to p, k = 1, 2, 3 for v0v1, v1v2, v2v0
EdgePoint(k, p) ==
  closest_segment_point(p, query.tri[k], query.tri[(k % 3) + 1])

EdgeDistance2(k, p) == norm_square(VSub(p, EdgePoint(k, p)))

TriangleCentroid ==
  VScale(Q(1, 3), VAdd(VAdd(query.tri[1], query.tri[2]), query.tri[3]))

\* C26: closest_triangle_point(p) is the foot of the perpendicular from p to
\* the plane when the barycentric coordinates of the foot are all in [0, 1];
\* otherwise it is the closest point of the first of the nearest edges in
\* the order v0v1, v1v2, v2v0; for p on the normal through the centroid it
\* is the centroid
C26_ClosestTrianglePoint ==
  call.op = "closest_triangle_point" =>
    LET tr   == reinit(query.tri[1], query.tri[2], query.tri[3])
        foot == project_to_triangle_plane(tr, query.p)
        b    == barycentric_coordinates(tr, foot)
    IN  /\ IsProjection(foot, query.p)
        /\ IsBarycentric(b, foot)
        /\ (\A k \in 1..3 : QLeq(Zero, b[k]) /\ QLeq(b[k], One))
             => call.point = foot
        /\ (\E k \in 1..3 : QLess(b[k], Zero) \/ QLess(One, b[k]))
             => \E k \in 1..3 :
                  /\ call.point = EdgePoint(k, query.p)
                  /\ \A m \in 1..3 :
                       /\ QLeq(EdgeDistance2(k, query.p),
                               EdgeDistance2(m, query.p))
                       /\ m < k => QLess(EdgeDistance2(k, query.p),
                                         EdgeDistance2(m, query.p))
        /\ Parallel(VSub(query.p, TriangleCentroid), PlaneNormal)
             => call.point = TriangleCentroid

\* the point (1, 1/3, 1) is above the centroid of the obtuse triangle, and
\* the centroid is returned
C26_Witness ==
  /\ call.op = "closest_triangle_point"
  /\ query.tri[2] = P3(I(4), Zero, Zero)
  /\ query.p = P3(One, Q(1, 3), One)
  /\ call.point = P3(One, Q(1, 3), Zero)
  /\ call.point = TriangleCentroid

\* the foot of the perpendicular is outside the triangle and a point of an
\* edge, not a vertex, is returned
ClosestOnEdge ==
  /\ call.op = "closest_triangle_point"
  /\ call.point # project_to_triangle_plane(
                     reinit(query.tri[1], query.tri[2], query.tri[3]), query.p)
  /\ \A k \in 1..3 : call.point # query.tri[k]

\* ------------------------------------------------------------- C27

\* the call was made with doubles on the x axis
OnAxis == call.op = "closest_segment_point" /\ IsBinary64(call.found[1][1])

\* x lies on the segment [a, b], a # b: x = a + s (b - a) with 0 <= s <= 1
\* in exact arithmetic, and a <= x <= b for doubles on the x axis
OnSegment(x, a, b) ==
  IF IsBinary64(x[1])
  THEN /\ ~Binary64Less(x[1], a[1])
       /\ ~Binary64Less(b[1], x[1])
       /\ x[2] = Zero /\ x[3] = Zero
  ELSE /\ QLeq(Zero, segment_parameter(x, a, b))
       /\ QLeq(segment_parameter(x, a, b), One)
       /\ x = VAdd(a, VScale(segment_parameter(x, a, b), VSub(b, a)))

\* the projection parameter of p on the line through a and b is below 0,
\* and above 1
ParameterBelow(p, a, b) ==
  IF IsBinary64(p[1]) THEN Binary64Less(p[1], a[1])
  ELSE QLess(segment_parameter(p, a, b), Zero)

ParameterAbove(p, a, b) ==
  IF IsBinary64(p[1]) THEN Binary64Less(b[1], p[1])
  ELSE QLess(One, segment_parameter(p, a, b))

\* C27: closest_segment_point(p, a, b) with a # b returns a point of the
\* segment [a, b]: a when the projection parameter of p is below 0, b when it
\* is above 1, and never a point outside the segment
C27_ClosestSegmentPoint ==
  (call.op = "closest_segment_point" /\ call.found[2] # call.found[3]) =>
     /\ OnSegment(call.point, call.found[2], call.found[3])
     /\ ParameterBelow(call.found[1], call.found[2], call.found[3])
           => call.point = call.found[2]
     /\ ParameterAbove(call.found[1], call.found[2], call.found[3])
           => call.point = call.found[3]

\* the claim restricted to the calls computed without rounding
ExactSegmentPoint == OnAxis \/ C27_ClosestSegmentPoint

\* a call beyond the end b of a segment of doubles whose result is not b
BeyondTheEnd ==
  /\ OnAxis
  /\ Binary64Less(call.found[3][1], call.point[1])

\* ------------------------------------------------------------- C28

\* C28: a convert whose source field exists changes nothing but the entry of
\* the target field: the points, the triangles, the cache, the vector fields,
\* the table of the source type and every other field of the target type keep
\* their values, and the target entry is the result computed from the source
\* alone, whatever the entry held before
C28_ConvertFrame ==
  [][(/\ call'.op = "convert"
      /\ call'.err # "crash" /\ ~call'.ub
      /\ Has(FieldTable(Store, call'.source_type), call'.source_name))
       => LET name   == IF call'.target_name = "" THEN call'.source_name
                        ELSE call'.target_name
              before == FieldTable(Store, call'.target_type)
              after  == IF call'.target_type = "CellField"
                        THEN cell_fields' ELSE point_fields'
          IN  /\ UNCHANGED <<points, triangles, triangle_cache,
                             cell_vector_fields, points2d, fields2d>>
              /\ call'.source_type = "CellField" => UNCHANGED cell_fields
              /\ call'.source_type = "PointField" => UNCHANGED point_fields
              /\ call'.err = "" =>
                    /\ DOMAIN after \subseteq DOMAIN before \cup {name}
                    /\ \A n \in DOMAIN before \ {name} :
                          n \in DOMAIN after /\ after[n] = before[n]
                    /\ after[name] = ConvertResult(call'.source_type,
                                                   call'.source_name,
                                                   call'.target_type)]_vars

\* convert of cell field q of the unit triangle to the new point field r has
\* left the loaded point field q as it was
C28_Witness ==
  /\ call.op = "convert"
  /\ call.err = "" /\ ~call.ub
  /\ call.source_type = "CellField" /\ call.source_name = "q"
  /\ call.target_type = "PointField" /\ call.target_name = "r"
  /\ cell_fields["q"] = <<I(5)>>
  /\ DOMAIN point_fields = {"q", "r"}
  /\ point_fields["r"] = <<I(5), I(5), I(5)>>
  /\ point_fields["q"] = <<I(1), I(2), I(3)>>

\* convert of point field q of the unit triangle with no target name has
\* written the mean 2 over the loaded cell field q
TargetOverwritten ==
  /\ call.op = "convert"
  /\ call.err = "" /\ ~call.ub
  /\ call.source_type = "PointField" /\ call.target_type = "CellField"
  /\ call.target_name = ""
  /\ point_fields = [q |-> <<I(1), I(2), I(3)>>]
  /\ cell_fields["q"] = <<I(2)>>
  /\ cell_fields["area"] = <<Q(1, 2)>>

\* ------------------------------------------------------------- C29

\* the 2D interpolate was called for a field the polyline has
Queried2d ==
  /\ call.op = "interpolate2d"
  /\ Has(fields2d, query.field_name)

\* x lies between a and b
Between(x, a, b) ==
  \/ QLeq(a, x) /\ QLeq(x, b)
  \/ QLeq(b, x) /\ QLeq(x, a)

\* what C29 promises for the marked target i: the reads were in range, no
\* segment handed to closest_segment_point has the squared length 0 the
\* parameter is divided by, the two weights are in [0, 1] and sum to 1, and
\* the value lies between the field values at the ends of the selected segment
SafeTarget(i) ==
  /\ call.found[i].j_found + 2 <= Len(points2d)
  /\ call.found[i].j_found + 2 <= Len(fields2d[query.field_name])
  /\ \A k \in 1..Len(call.found[i].segments) :
        call.found[i].segments[k][1] # call.found[i].segments[k][2]
  /\ LET j  == Selected2d(i)
          t2 == segment_barycentric(call.found[i].p_found, points2d[j],
                                    points2d[j + 1])
          f  == fields2d[query.field_name]
      IN  /\ QLeq(Zero, t2[1]) /\ QLeq(t2[1], One)
          /\ QLeq(Zero, t2[2]) /\ QLeq(t2[2], One)
          /\ QAdd(t2[1], t2[2]) = One
          /\ Between(call.values[i], f[j], f[j + 1])

\* C29: on every polyline, those of fewer than two points and those with two
\* equal consecutive points included, interpolate reads only stored points
\* and field values, divides by no zero and gives every marked target a value
\* between the two field values of its segment
C29_InterpolateSafe ==
  Queried2d =>
    /\ ~call.ub
    /\ \A i \in 1..Len(query.markers) : query.markers[i] => SafeTarget(i)

\* the same on the polylines of two points or more whose consecutive points
\* differ and whose fields have a value for every point
ProperPolyline ==
  /\ Len(points2d) >= 2
  /\ \A j \in 1..(Len(points2d) - 1) : points2d[j] # points2d[j + 1]
  /\ \A n \in DOMAIN fields2d : Len(fields2d[n]) = Len(points2d)

SafeOnProperPolylines == ProperPolyline => C29_InterpolateSafe

\* a marked target got NaN from a segment between two equal points, without
\* any read out of range
DividedByZero ==
  /\ Queried2d
  /\ ~call.ub
  /\ \E i \in 1..Len(query.markers) :
        /\ query.markers[i]
        /\ IsNaN(call.values[i])
        /\ points2d[Selected2d(i)] = points2d[Selected2d(i) + 1]

\* a marked target on a polyline of fewer than two points: a read out of range
ReadPastTheEnd ==
  /\ Queried2d
  /\ call.ub
  /\ Len(points2d) < 2
  /\ \E i \in 1..Len(query.markers) : query.markers[i]

\* ------------------------------------------------------------- C30

\* the places <<c, i>> where a cell names the degree of freedom dof
Incident(dof) ==
  {ci \in (1..Len(query.cells)) \X (1..Len(query.cells[1])) :
     query.cells[ci[1]][ci[2]] = dof}

\* the sum of the projected stresses of component k at these places
RECURSIVE Contributed(_, _)
Contributed(k, places) ==
  IF places = {} THEN Zero
  ELSE LET ci == CHOOSE x \in places : TRUE
       IN  QAdd(query.contribution[ci[1]][k][ci[2]],
                Contributed(k, places \ {ci}))

\* stress[k][dof] is the mean over the cells that contain dof
Averaged(k, dof) ==
  call.values[k][dof + 1]
    = QDiv(Contributed(k, Incident(dof)), I(Cardinality(Incident(dof))))

\* C30: after calculate_stress, for every component k and every temperature
\* degree of freedom i of the mesh, stress[k][i] is the sum of the projected
\* stresses of the cells at i divided by the number of cells that contain i
C30_StressAveraged ==
  (call.op = "calculate_stress" /\ call.err = "") =>
     \A k \in 1..n_components :
        \A dof \in 0..(n_dofs(query.cells) - 1) : Averaged(k, dof)

\* what the code does: the degrees of freedom below dofs_per_cell are
\* averaged and the others hold the sum
FirstDofsAveraged ==
  (call.op = "calculate_stress" /\ call.err = "") =>
     \A k \in 1..n_components :
        \A dof \in 0..(n_dofs(query.cells) - 1) :
           IF dof < Len(query.cells[1]) THEN Averaged(k, dof)
           ELSE call.values[k][dof + 1] = Contributed(k, Incident(dof))

\* a degree of freedom of two cells beyond the first dofs_per_cell holds the
\* sum of its two contributions
SumLeft ==
  /\ call.op = "calculate_stress"
  /\ call.err = ""
  /\ Len(query.cells) = 3
  /\ call.written[9] = 2
  /\ ~Averaged(1, 8)
  /\ call.values[1][9] = Contributed(1, Incident(8))

====
